---- MODULE Spec2Model ----
\* The EthBroadcaster of core/chains/evm/bulletprooftxmanager: the durable
\* tables eth_txes, eth_tx_attempts and eth_key_states, one Worker per
\* registered key (monitorEthTxs / processUnstartedEthTxs), the external
\* producers that insert and prune unstarted rows, the confirmer, and
\* process crashes followed by a restart.
\*
\* One Worker step is one call out of the process: a database statement or
\* transaction, an RPC call, an estimator call or a resume callback, together
\* with the local code up to the next such call.  The process can die between
\* any two steps.
EXTENDS Integers, Sequences, FiniteSets, TLC

VARIABLES
    ethTxes,         \* table eth_txes: id -> row
    ethTxAttempts,   \* table eth_tx_attempts: a set of rows
    nextNonce,       \* eth_key_states.next_nonce, per address
    ethTxSeq,        \* the serial behind eth_txes.id
    started,         \* StartOnce has run in the current process
    w,               \* per address: the Worker's position and local variables
    crashes,         \* how often the process has been killed so far
    svc              \* chStop, the ethTxInsertTriggerer goroutine, Close's return, triggers

vars == <<ethTxes, ethTxAttempts, nextNonce, ethTxSeq, started, w, crashes, svc>>
store == <<ethTxes, ethTxAttempts, nextNonce, ethTxSeq>>

-----------------------------------------------------------------------------
\* Bounds of the model

\* rows inserted by the producers in one run
MaxTx == 2
\* where convergence is checked: rows inserted in one run, and kills of the
\* process in one run
LiveMaxTx == 2
MaxCrashes == 1
\* the node answers "underpriced" / "fee too low" to at most this many
\* attempts of one EthTx, so that the inline retries end
MaxReplacements == 1
\* next_nonce of every key before the first broadcast
InitialNonce == 1

-----------------------------------------------------------------------------
\* Values

\* the key states given to NewEthBroadcaster, one per key of the chain
keyStates == <<"a1">>
\* the addresses registered with the EthBroadcaster
Addrs == {keyStates[k] : k \in DOMAIN keyStates}
\* an address that sends through the same table and is not registered here
OtherAddrs == {"a2"}

\* a NULL broadcast_at (*time.Time nil)
NullTime == -1
\* a NULL nonce (*int64 nil)
NullNonce == -1
\* eth_key_states has no row for the address
NoKeyState == -2
\* a NULL error (null.String with Valid = false)
NoError == "NULL"
\* a NULL subject (uuid.NullUUID{})
NoSubject == "NULL"

EthTxUnstarted == "unstarted"
EthTxInProgress == "in_progress"
EthTxUnconfirmed == "unconfirmed"
EthTxConfirmed == "confirmed"
EthTxFatalError == "fatal_error"

EthTxAttemptInProgress == "in_progress"
EthTxAttemptBroadcast == "broadcast"

\* config.EvmMaxGasPriceWei, in units of the smallest price
EvmMaxGasPriceWei == 2
GasPrices == 1..EvmMaxGasPriceWei
\* the values config.EvmMaxInFlightTransactions() may return when it is read
MaxInFlightSettings == {0, 1}
\* the values config.EvmEIP1559DynamicFees() may return when it is read
DynamicFeeSettings == {FALSE, TRUE}

\* what the producers insert: from_address, value, created_at, subject,
\* simulate, pipeline_task_run_id set or not
TxInputs ==
    {[from |-> "a1", value |-> v, createdAt |-> 0, subject |-> NoSubject,
      simulate |-> FALSE, taskRun |-> FALSE] : v \in {0, 1}}
    \cup
    {[from |-> "a1", value |-> 0, createdAt |-> 1, subject |-> "s1",
      simulate |-> TRUE, taskRun |-> TRUE]}
    \cup
    {[from |-> a, value |-> 0, createdAt |-> 0, subject |-> "s1",
      simulate |-> FALSE, taskRun |-> FALSE] : a \in OtherAddrs}
\* what they insert where convergence is checked
LiveTxInputs ==
    {[from |-> "a1", value |-> 0, createdAt |-> 0, subject |-> "s1",
      simulate |-> TRUE, taskRun |-> TRUE]}
Subjects == {"s1"}
QueueSizes == {1}

\* SendError kinds: what the classifier methods of evmclient.SendError test.
\* A send result is the set of kinds the raw error matches; {} is nil.
NonceTooLow == "NonceTooLow"
ReplacementUnderpriced == "ReplacementUnderpriced"
TerminallyUnderpriced == "TerminallyUnderpriced"
FeeTooLow == "FeeTooLow"
FeeTooHigh == "FeeTooHigh"
TemporarilyUnderpriced == "TemporarilyUnderpriced"
InsufficientEth == "InsufficientEth"
TooExpensive == "TooExpensive"
Fatal == "Fatal"
Unknown == "Unknown"
SendErrorKinds ==
    {NonceTooLow, ReplacementUnderpriced, TerminallyUnderpriced, FeeTooLow,
     FeeTooHigh, TemporarilyUnderpriced, InsufficientEth, TooExpensive, Fatal,
     Unknown}
NilError == {}
SendResults == {NilError} \cup {{k} : k \in SendErrorKinds}
RetryKinds == {TerminallyUnderpriced, FeeTooLow, FeeTooHigh}

NoEthTx ==
    [id |-> 0, from |-> "NULL", value |-> 0, createdAt |-> 0, subject |-> NoSubject,
     simulate |-> FALSE, taskRun |-> FALSE, state |-> "NULL", nonce |-> NullNonce,
     error |-> NoError, broadcastAt |-> NullTime]
NoAttempt == [id |-> <<0, 0>>, ethTxId |-> 0, state |-> "NULL", txType |-> 0, gasPrice |-> 0]

\* Worker positions
PcNotRunning == "not_running"
PcGetInProgress == "getInProgressEthTx"
PcLoop == "nextUnstarted"
PcSaveInProgress == "saveInProgressTransaction"
PcSimulate == "simulateTransaction"
PcSend == "sendTransaction"
PcSaveReplacement == "saveReplacementInProgressAttempt"
PcResume == "resumeCallback"
PcSaveFatal == "saveFatallyErroredTransaction"
PcSaveAttempt == "saveAttempt"
PcWait == "wait"

\* A Worker: its position, its local etx and attempt, the replacement attempt
\* it has built, whether handleInProgressEthTx was called by
\* handleAnyInProgressEthTx (resumed) or by the loop of processUnstartedEthTxs,
\* and, on the way to saveAttempt, the answer of the node that the code has
\* by then overwritten with nil (sent; NoSend elsewhere)
Worker(pc, etx, attempt, repl, resumed) ==
    [pc |-> pc, etx |-> etx, attempt |-> attempt, repl |-> repl, resumed |-> resumed,
     sent |-> {"NULL"}, initialBroadcastAt |-> NullTime]
NoSend == {"NULL"}
NoWorker == Worker(PcNotRunning, NoEthTx, NoAttempt, NoAttempt, FALSE)
\* make(chan struct{}, 1): the buffer of a key's trigger channel
TriggerBuffer == 1
\* NewEthBroadcaster: chStop is open, no goroutine has been added to wg,
\* Close has not been called, no trigger is pending (triggers: how many
\* values the trigger channel of each key holds) and the body of Start has
\* not run (launches: how often it has).
NewSvc ==
    [chStop |-> FALSE, triggerer |-> FALSE, closed |-> FALSE,
     triggers |-> [a \in Addrs |-> 0], launches |-> 0]

-----------------------------------------------------------------------------
\* Queries of the store

TxIds == DOMAIN ethTxes
RowsOf(a, st) == {i \in TxIds : ethTxes[i].from = a /\ ethTxes[i].state = st}
AttemptsOf(i) == {at \in ethTxAttempts : at.ethTxId = i}

\* (changed) SELECT 0
CountUnconfirmedTransactionsZero(a) == 0

\* CountUnconfirmedTransactions
CountUnconfirmedTransactions(a) == Cardinality(RowsOf(a, EthTxUnconfirmed))

\* (changed) ORDER BY id ASC
OrderBeforeById(i, j) == i < j

\* ORDER BY value ASC, created_at ASC, id ASC
OrderBefore(i, j) ==
    \/ ethTxes[i].value < ethTxes[j].value
    \/ /\ ethTxes[i].value = ethTxes[j].value
       /\ ethTxes[i].createdAt < ethTxes[j].createdAt
    \/ /\ ethTxes[i].value = ethTxes[j].value
       /\ ethTxes[i].createdAt = ethTxes[j].createdAt
       /\ i < j

\* findNextUnstartedTransactionFromAddress: the first row of the ordered
\* result; only used when there is one
findNextUnstartedTransactionFromAddress(a) ==
    CHOOSE i \in RowsOf(a, EthTxUnstarted) :
        \A j \in RowsOf(a, EthTxUnstarted) \ {i} : OrderBefore(i, j)

\* (changed) the nonce after next_nonce is handed out
GetNextNonceSkipping(a) == nextNonce[a] + 1

\* GetNextNonce
GetNextNonce(a) == nextNonce[a]

-----------------------------------------------------------------------------
Init ==
    /\ ethTxes = <<>>
    /\ ethTxAttempts = {}
    /\ nextNonce = [a \in Addrs |-> InitialNonce]
    /\ ethTxSeq = 1
    /\ started = FALSE
    /\ w = [a \in Addrs |-> NoWorker]
    /\ crashes = 0
    /\ svc = NewSvc

-----------------------------------------------------------------------------
\* The environment

\* A producer inserts an unstarted row.
Insert(inputs, max) ==
    /\ ethTxSeq <= max
    /\ \E in \in inputs :
        ethTxes' = [i \in TxIds \cup {ethTxSeq} |->
            IF i = ethTxSeq
            THEN [id |-> ethTxSeq, from |-> in.from, value |-> in.value,
                  createdAt |-> in.createdAt, subject |-> in.subject,
                  simulate |-> in.simulate, taskRun |-> in.taskRun,
                  state |-> EthTxUnstarted, nonce |-> NullNonce, error |-> NoError,
                  broadcastAt |-> NullTime]
            ELSE ethTxes[i]]
    /\ ethTxSeq' = ethTxSeq + 1
    /\ UNCHANGED <<ethTxAttempts, nextNonce, started, w, crashes, svc>>

InsertEthTx == Insert(TxInputs, MaxTx)
InsertEthTxLive == Insert(LiveTxInputs, LiveMaxTx)

\* (changed) the queue is kept per from_address: a row goes when queueSize
\* newer unstarted rows of the subject have its from_address
PrunedByPerKey(s, n) ==
    LET U == {i \in TxIds : ethTxes[i].state = EthTxUnstarted /\ ethTxes[i].subject = s}
    IN {i \in U : Cardinality({j \in U : j > i /\ ethTxes[j].from = ethTxes[i].from}) >= n}

\* DropOldestStrategy.PruneQueue(subject, queueSize): the unstarted rows of the
\* subject beyond the queueSize newest (by id) are deleted, whatever their
\* from_address.
PrunedBy(s, n) ==
    LET U == {i \in TxIds : ethTxes[i].state = EthTxUnstarted /\ ethTxes[i].subject = s}
    IN {i \in U : Cardinality({j \in U : j > i}) >= n}

PruneQueueOf(subjects, queueSizes) ==
    \E s \in subjects, n \in queueSizes :
        /\ PrunedBy(s, n) # {}
        /\ ethTxes' = [i \in TxIds \ PrunedBy(s, n) |-> ethTxes[i]]
        /\ UNCHANGED <<ethTxAttempts, nextNonce, ethTxSeq, started, w, crashes, svc>>

PruneQueue == PruneQueueOf(Subjects, QueueSizes)

\* The confirmer sees a receipt for an unconfirmed row.
Confirm ==
    \E i \in TxIds :
        /\ ethTxes[i].state = EthTxUnconfirmed
        /\ ethTxes' = [ethTxes EXCEPT ![i].state = EthTxConfirmed]
        /\ UNCHANGED <<ethTxAttempts, nextNonce, ethTxSeq, started, w, crashes, svc>>

\* The process is killed; the operator brings up a new one, which constructs
\* a new EthBroadcaster over the same database.
Kill ==
    /\ started
    /\ started' = FALSE
    /\ w' = [a \in Addrs |-> NoWorker]
    /\ svc' = NewSvc
    /\ UNCHANGED store

\* any number of times
Crash == Kill /\ UNCHANGED crashes
\* at most MaxCrashes times
CrashCounted == Kill /\ crashes < MaxCrashes /\ crashes' = crashes + 1

-----------------------------------------------------------------------------
\* The supervisor

\* (changed) the function given to StartOnce is run at every call
StartOnceAgain == TRUE

\* StartOnce runs the function it is given only at the first call of Start
\* on this EthBroadcaster
StartOnce == ~started

\* (changed) a failed nonce sync is not looked at
StartAbortsOnSubscribeOnly(subscribed, autoSync, synced) == ~subscribed

\* Start returns an error before anything is launched: Subscribe failed, or
\* EvmNonceAutoSync is set and SyncAll failed
StartAborts(subscribed, autoSync, synced) == ~subscribed \/ (autoSync /\ ~synced)

\* The function Start gives to StartOnce: Subscribe (subscribed: it
\* succeeded), then with EvmNonceAutoSync (autoSync) SyncAll (synced: it
\* succeeded, leaving syncedNonce in eth_key_states.next_nonce), then the
\* launch of one Worker per key and of the triggerer.
StartWith(subscribed, autoSync, synced, syncedNonce) ==
    /\ StartOnce
    /\ started' = TRUE
    /\ IF StartAborts(subscribed, autoSync, synced)
       THEN UNCHANGED <<store, w, svc>>
       ELSE /\ nextNonce' = IF autoSync THEN syncedNonce ELSE nextNonce
            /\ w' = [a \in Addrs |->
                        Worker(PcGetInProgress, NoEthTx, NoAttempt, NoAttempt, FALSE)]
            /\ svc' = [svc EXCEPT !.triggerer = TRUE, !.launches = @ + 1]
            /\ UNCHANGED <<ethTxes, ethTxAttempts, ethTxSeq>>
    /\ UNCHANGED crashes

\* Start: one Worker per registered key, each of which begins with a cycle.
\* EvmNonceAutoSync is unset: the NonceSyncer is not run and next_nonce is as
\* the last process left it.
Start == StartWith(TRUE, FALSE, TRUE, nextNonce)

-----------------------------------------------------------------------------
\* The Worker of address a

\* (changed) monitorEthTxs returns when ProcessUnstartedEthTxs has returned
EndCycleExits == Worker(PcNotRunning, NoEthTx, NoAttempt, NoAttempt, FALSE)
\* the cycle ends: ProcessUnstartedEthTxs returns (nil or an error, which
\* monitorEthTxs logs) and the Worker waits for a trigger or the poll timer
EndCycle == Worker(PcWait, NoEthTx, NoAttempt, NoAttempt, FALSE)
\* (changed) return instead of continue
ContinueEnds == Worker(PcWait, NoEthTx, NoAttempt, NoAttempt, FALSE)
\* back to the head of the loop of processUnstartedEthTxs
Continue == Worker(PcLoop, NoEthTx, NoAttempt, NoAttempt, FALSE)

\* handleInProgressEthTx up to its first call out: the state check, then
\* the simulation when etx.Simulate, else the send
handleInProgressEthTx(etx, attempt, resumed, initialBroadcastAt) ==
    IF etx.state # EthTxInProgress
    THEN EndCycle
    ELSE [Worker(IF etx.simulate THEN PcSimulate ELSE PcSend, etx, attempt, NoAttempt, resumed)
             EXCEPT !.initialBroadcastAt = initialBroadcastAt]

\* (changed) the resumption takes the row's broadcast_at
resumedBroadcastAtStored(etx) == etx.broadcastAt

\* handleAnyInProgressEthTx: the initialBroadcastAt it hands to
\* handleInProgressEthTx is etx.CreatedAt
resumedBroadcastAt(etx) == etx.createdAt

\* time.Now() when handleInProgressEthTx is called from the loop: a reading
\* of the clock that is elapsed after the row's created_at
timeNow(etx, elapsed) == etx.createdAt + elapsed

\* the readings where broadcast_at is not followed: the clock still reads
\* the row's created_at
ClockFrozen == {0}

\* (changed) the lookup finds no row
InProgressRowsSkipped(a) == {}

\* SELECT * FROM eth_txes WHERE from_address = $1 and state = 'in_progress'
InProgressRows(a) == RowsOf(a, EthTxInProgress)

\* NewLegacyAttempt / NewDynamicFeeAttempt: an unsaved, signed attempt
NewLegacyAttempt(etx, gasPrice) ==
    [id |-> <<0, 0>>, ethTxId |-> etx.id, state |-> EthTxAttemptInProgress, txType |-> 0,
     gasPrice |-> gasPrice]
NewDynamicFeeAttempt(etx) ==
    [id |-> <<0, 0>>, ethTxId |-> etx.id, state |-> EthTxAttemptInProgress, txType |-> 2,
     gasPrice |-> 0]

\* nextUnstartedTransactionWithNonce: the next row, with next_nonce assigned
\* to the local copy
nextUnstartedTransactionWithNonce(a) ==
    LET etx == ethTxes[findNextUnstartedTransactionFromAddress(a)]
    IN [etx EXCEPT !.nonce = GetNextNonce(etx.from)]

\* One turn of the loop of processUnstartedEthTxs up to
\* saveInProgressTransaction, EvmMaxInFlightTransactions being read as
\* maxInFlightTransactions: the throttle, the pick, the estimator and the
\* attempt builder.  The Worker's next position and local variables.
LoopTurnWith(a, maxInFlightTransactions) ==
    IF /\ maxInFlightTransactions > 0
       /\ CountUnconfirmedTransactions(a) >= maxInFlightTransactions
    THEN \* time.Sleep(InFlightTransactionRecheckInterval); continue
         {Continue}
    ELSE IF RowsOf(a, EthTxUnstarted) = {}
    THEN {EndCycle}
    ELSE IF nextNonce[a] = NoKeyState
    THEN \* GetNextNonce: sql.ErrNoRows
         {EndCycle}
    ELSE \* the estimator or the attempt builder fails, or the attempt is built
         {EndCycle} \cup
         {Worker(PcSaveInProgress, nextUnstartedTransactionWithNonce(a),
                 IF dynamic
                 THEN NewDynamicFeeAttempt(nextUnstartedTransactionWithNonce(a))
                 ELSE NewLegacyAttempt(nextUnstartedTransactionWithNonce(a), gasPrice),
                 NoAttempt, FALSE) :
            dynamic \in DynamicFeeSettings, gasPrice \in GasPrices}

\* the same, EvmMaxInFlightTransactions being any of its settings
LoopTurn(a) ==
    UNION {LoopTurnWith(a, maxInFlightTransactions) :
                maxInFlightTransactions \in MaxInFlightSettings}

\* processUnstartedEthTxs: a later turn of the loop, turns being what a turn
\* may come to
processUnstartedEthTxsFrom(a, turns) ==
    /\ w[a].pc = PcLoop
    /\ \E next \in turns : w' = [w EXCEPT ![a] = next]
    /\ UNCHANGED <<store, started, crashes, svc>>

processUnstartedEthTxs(a) == processUnstartedEthTxsFrom(a, LoopTurn(a))

\* monitorEthTxs: at launch, and whenever the trigger channel or the poll
\* timer fires, a cycle begins with handleAnyInProgressEthTx /
\* getInProgressEthTx.  q.Get scans the first row of the result, whichever
\* the database lists first.  When no row is in_progress the first turn of
\* the loop belongs to the same step: only this Worker writes in_progress
\* rows of its address, so nothing another process does between the two
\* reads can be told from its doing it before them.
handleAnyInProgressEthTxFrom(a, turns) ==
    /\ w[a].pc \in {PcGetInProgress, PcWait}
    /\ IF InProgressRows(a) = {}
       THEN \E next \in turns : w' = [w EXCEPT ![a] = next]
       ELSE \E i \in InProgressRows(a) :
            IF \/ Cardinality(AttemptsOf(i)) # 1
               \/ \E at \in AttemptsOf(i) : at.state # EthTxAttemptInProgress
            THEN w' = [w EXCEPT ![a] = EndCycle]
            ELSE \E at \in AttemptsOf(i) :
                    w' = [w EXCEPT ![a] = handleInProgressEthTx(ethTxes[i], at, TRUE,
                                                                resumedBroadcastAt(ethTxes[i]))]
    /\ UNCHANGED <<store, started, crashes, svc>>

handleAnyInProgressEthTx(a) == handleAnyInProgressEthTxFrom(a, LoopTurn(a))

\* INSERT INTO eth_tx_attempts ... RETURNING *: the stored attempt.  The
\* database gives it an id no other attempt has or had; here that is the
\* EthTx's id with the count of the attempts saved for that EthTx, previous
\* being the attempt it replaces (NoAttempt for the first).
InsertAttempt(attempt, previous) ==
    [attempt EXCEPT !.id = <<attempt.ethTxId, previous.id[2] + 1>>]

\* (changed) the INSERT is lost
WithAttemptLost(attempt) == ethTxAttempts

\* the table after the INSERT
WithAttempt(attempt) == ethTxAttempts \cup {attempt}

\* saveInProgressTransaction, then the call of handleInProgressEthTx with
\* time.Now(), clock being what may have elapsed since the row's created_at
saveInProgressTransactionAt(a, clock) ==
    /\ w[a].pc = PcSaveInProgress
    /\ LET etx == w[a].etx
           attempt == w[a].attempt
       IN IF etx.state # EthTxUnstarted \/ attempt.state # EthTxAttemptInProgress
          THEN /\ w' = [w EXCEPT ![a] = EndCycle]
               /\ UNCHANGED store
          ELSE IF etx.id \notin TxIds
          THEN \* eth_tx_attempts_eth_tx_id_fkey: errEthTxRemoved, continue
               /\ w' = [w EXCEPT ![a] = Continue]
               /\ UNCHANGED store
          ELSE LET saved == [ethTxes[etx.id] EXCEPT !.nonce = etx.nonce,
                                                    !.state = EthTxInProgress,
                                                    !.broadcastAt = etx.broadcastAt]
               IN /\ ethTxAttempts' = WithAttempt(InsertAttempt(attempt, NoAttempt))
                  /\ ethTxes' = [ethTxes EXCEPT ![etx.id] = saved]
                  /\ \E elapsed \in clock :
                        w' = [w EXCEPT ![a] = handleInProgressEthTx(saved, InsertAttempt(attempt, NoAttempt),
                                                                    FALSE, timeNow(saved, elapsed))]
                  /\ UNCHANGED <<nextNonce, ethTxSeq>>
    /\ UNCHANGED <<started, crashes, svc>>

saveInProgressTransaction(a) == saveInProgressTransactionAt(a, ClockFrozen)

\* (changed) the resume callback is left out
saveFatallyErroredTransactionEntrySilent(etx, attempt, resumed) ==
    IF etx.state # EthTxInProgress \/ etx.error = NoError
    THEN EndCycle
    ELSE Worker(PcSaveFatal, etx, attempt, NoAttempt, resumed)

\* saveFatallyErroredTransaction up to its first call out: the two checks,
\* then the resume callback when the row has a pipeline_task_run_id
saveFatallyErroredTransactionEntry(etx, attempt, resumed) ==
    IF etx.state # EthTxInProgress \/ etx.error = NoError
    THEN EndCycle
    ELSE Worker(IF etx.taskRun THEN PcResume ELSE PcSaveFatal, etx, attempt, NoAttempt, resumed)

\* handleInProgressEthTx: simulateTransaction with etx.Simulate set.  An RPC
\* error is a revert; any other failure is logged and the send follows.
ErrReverted == "transaction reverted during simulation"

\* (changed) the send follows a revert as well
handleSimulationSendingAnyway(a, reverted) == [w[a] EXCEPT !.pc = PcSend]

\* what follows the simulation: reverted when ExtractRPCError finds an RPC
\* error in its result
handleSimulation(a, reverted) ==
    IF reverted
    THEN saveFatallyErroredTransactionEntry([w[a].etx EXCEPT !.error = ErrReverted],
                                            w[a].attempt, w[a].resumed)
    ELSE [w[a] EXCEPT !.pc = PcSend]

simulateTransaction(a) ==
    /\ w[a].pc = PcSimulate
    /\ \E reverted \in BOOLEAN : w' = [w EXCEPT ![a] = handleSimulation(a, reverted)]
    /\ UNCHANGED <<store, started, crashes, svc>>

\* eb.resumeCallback: nil and sql.ErrNoRows let the save follow, any other
\* error ends the cycle
resumeCallback(a) ==
    /\ w[a].pc = PcResume
    /\ \E failed \in BOOLEAN :
        w' = [w EXCEPT ![a] = IF failed THEN EndCycle ELSE [w[a] EXCEPT !.pc = PcSaveFatal]]
    /\ UNCHANGED <<store, started, crashes, svc>>

\* (changed) the DELETE does not happen
DeleteAttemptsOfSkipped(i) == ethTxAttempts
\* (changed) DELETE FROM eth_tx_attempts, without the WHERE
DeleteAttemptsOfAll(i) == {}

\* DELETE FROM eth_tx_attempts WHERE eth_tx_id = $1
DeleteAttemptsOf(i) == ethTxAttempts \ AttemptsOf(i)

\* the transaction of saveFatallyErroredTransaction
saveFatallyErroredTransaction(a) ==
    /\ w[a].pc = PcSaveFatal
    /\ LET etx == w[a].etx
       IN IF etx.id \notin TxIds
          THEN /\ w' = [w EXCEPT ![a] = EndCycle]
               /\ UNCHANGED store
          ELSE /\ ethTxAttempts' = DeleteAttemptsOf(etx.id)
               /\ ethTxes' = [ethTxes EXCEPT ![etx.id].state = EthTxFatalError,
                                             ![etx.id].error = etx.error,
                                             ![etx.id].broadcastAt = NullTime,
                                             ![etx.id].nonce = NullNonce]
               /\ w' = [w EXCEPT ![a] = Continue]
               /\ UNCHANGED <<nextNonce, ethTxSeq>>
    /\ UNCHANGED <<started, crashes, svc>>

\* (changed) the replacement is sent without having been saved
tryAgainWithNewGasUnsaved(a, newGasPrice) ==
    [w[a] EXCEPT !.pc = PcSend, !.attempt = NewLegacyAttempt(w[a].etx, newGasPrice)]

\* tryAgainWithNewGas up to saveReplacementInProgressAttempt
tryAgainWithNewGas(a, newGasPrice) ==
    [w[a] EXCEPT !.pc = PcSaveReplacement,
                 !.repl = NewLegacyAttempt(w[a].etx, newGasPrice)]

\* (changed) the ceiling is not looked at
tryAgainBumpingGasNoCeiling(a) ==
    IF w[a].attempt.txType = 2
    THEN {EndCycle}
    ELSE {EndCycle} \cup
         {tryAgainWithNewGas(a, bumpedGasPrice) :
             bumpedGasPrice \in {p \in GasPrices : p >= w[a].attempt.gasPrice}}

\* (changed) the type of the attempt is not looked at
tryAgainBumpingGasAnyType(a) ==
    {tryAgainWithNewGas(a, bumpedGasPrice) : bumpedGasPrice \in GasPrices}

\* tryAgainBumpingGas: the Worker's next position for each answer of
\* estimator.BumpLegacyGas (an error, or a price not below the attempt's)
tryAgainBumpingGas(a) ==
    IF w[a].attempt.txType = 2
    THEN {EndCycle}
    ELSE {EndCycle} \cup
         {IF bumpedGasPrice = w[a].attempt.gasPrice /\ bumpedGasPrice = EvmMaxGasPriceWei
          THEN EndCycle
          ELSE tryAgainWithNewGas(a, bumpedGasPrice) :
             bumpedGasPrice \in {p \in GasPrices : p >= w[a].attempt.gasPrice}}

\* tryAgainWithNewEstimation: the same for estimator.GetLegacyGas(OptForceRefetch)
tryAgainWithNewEstimation(a) ==
    {EndCycle} \cup {tryAgainWithNewGas(a, gasPrice) : gasPrice \in GasPrices}

\* (changed) no kind is taken as a success
AssumeSuccessNever(sendError, kinds) == sendError

\* (changed) every send error is taken as a success
AssumeSuccessAlways(sendError, kinds) == NilError

\* sendError = nil for the kinds that are taken as a success
AssumeSuccess(sendError, kinds) ==
    IF sendError \cap kinds # {} THEN NilError ELSE sendError

\* handleInProgressEthTx from the return of sendTransaction to the next call
\* out: the tests on the send error, in the order of the code
handleSendError(a, sendError) ==
    /\ w[a].pc = PcSend
    /\ IF TooExpensive \in sendError \/ Fatal \in sendError
       THEN w' = [w EXCEPT ![a] =
                    saveFatallyErroredTransactionEntry(
                        [w[a].etx EXCEPT !.error = "send error"],
                        w[a].attempt, w[a].resumed)]
       ELSE LET afterNonce == AssumeSuccess(sendError, {NonceTooLow, ReplacementUnderpriced})
            IN IF TerminallyUnderpriced \in afterNonce
               THEN \E next \in tryAgainBumpingGas(a) : w' = [w EXCEPT ![a] = next]
               ELSE IF FeeTooLow \in afterNonce \/ FeeTooHigh \in afterNonce
               THEN \E next \in tryAgainWithNewEstimation(a) : w' = [w EXCEPT ![a] = next]
               ELSE LET afterTemp == AssumeSuccess(afterNonce, {TemporarilyUnderpriced})
                    IN IF InsufficientEth \in afterTemp
                       THEN w' = [w EXCEPT ![a] = EndCycle]
                       ELSE IF afterTemp = NilError
                       THEN w' = [w EXCEPT ![a].pc = PcSaveAttempt, ![a].sent = sendError]
                       ELSE w' = [w EXCEPT ![a] = EndCycle]
    /\ UNCHANGED <<store, started, crashes, svc>>

\* sendTransaction: the node's answer is any of SendResults
sendTransaction(a) ==
    \E sendError \in SendResults :
        /\ sendError \cap RetryKinds # {} => w[a].attempt.id[2] <= MaxReplacements
        /\ handleSendError(a, sendError)

\* saveReplacementInProgressAttempt(old, new): the old attempt is deleted and
\* the new one inserted in one transaction
ReplaceAttempt(old, new) == (ethTxAttempts \ {old}) \cup {new}

\* the transaction, new being the replacement as the INSERT returns it
saveReplacementInProgressAttemptAs(a, new) ==
    /\ w[a].pc = PcSaveReplacement
    /\ LET old == w[a].attempt
       IN IF old.state # EthTxAttemptInProgress \/ new.state # EthTxAttemptInProgress
          THEN /\ w' = [w EXCEPT ![a] = EndCycle]
               /\ UNCHANGED store
          ELSE /\ ethTxAttempts' = ReplaceAttempt(old, new)
               /\ w' = [w EXCEPT ![a] = handleInProgressEthTx(w[a].etx, new, w[a].resumed,
                                                                 w[a].initialBroadcastAt)]
               /\ UNCHANGED <<ethTxes, nextNonce, ethTxSeq>>
    /\ UNCHANGED <<started, crashes, svc>>

saveReplacementInProgressAttempt(a) ==
    saveReplacementInProgressAttemptAs(a, InsertAttempt(w[a].repl, w[a].attempt))

\* (changed) WHERE address = $1, without next_nonce = $2
IncrementMatchesAny(address, currentNonce) == TRUE

\* IncrementNextNonce: UPDATE eth_key_states SET next_nonce = next_nonce + 1
\* WHERE address = $1 AND next_nonce = $2; no row matched is an error
IncrementMatches(address, currentNonce) == nextNonce[address] = currentNonce
\* (changed) SET next_nonce = next_nonce
IncrementNextNonceLost(address) == nextNonce
\* (changed) SET next_nonce = next_nonce + 2
IncrementNextNonceTwice(address) == [nextNonce EXCEPT ![address] = @ + 2]
IncrementNextNonce(address) == [nextNonce EXCEPT ![address] = @ + 1]

\* (changed) the UPDATE of the attempt is lost
UpdateAttemptStateLost(attempt, newState) == ethTxAttempts

\* UPDATE eth_tx_attempts SET state = $1 WHERE id = $2
UpdateAttemptState(attempt, newState) ==
    {IF at.id = attempt.id THEN [at EXCEPT !.state = newState] ELSE at : at \in ethTxAttempts}

\* saveAttempt(q, &etx, attempt, EthTxAttemptBroadcast), etx.BroadcastAt
\* being &initialBroadcastAt since the send
saveAttempt(a) ==
    /\ w[a].pc = PcSaveAttempt
    /\ LET etx == w[a].etx
           attempt == w[a].attempt
       IN IF \/ etx.state # EthTxInProgress
             \/ attempt.state # EthTxAttemptInProgress
             \/ ~IncrementMatches(etx.from, etx.nonce)
             \/ etx.id \notin TxIds
             \/ attempt \notin ethTxAttempts
          THEN /\ w' = [w EXCEPT ![a] = EndCycle]
               /\ UNCHANGED store
          ELSE /\ nextNonce' = IncrementNextNonce(etx.from)
               /\ ethTxes' = [ethTxes EXCEPT ![etx.id].state = EthTxUnconfirmed,
                                             ![etx.id].error = etx.error,
                                             ![etx.id].broadcastAt = w[a].initialBroadcastAt]
               /\ ethTxAttempts' = UpdateAttemptState(attempt, EthTxAttemptBroadcast)
               /\ w' = [w EXCEPT ![a] = Continue]
               /\ UNCHANGED ethTxSeq
    /\ UNCHANGED <<started, crashes, svc>>

-----------------------------------------------------------------------------
WorkerStep(a) ==
    \/ handleAnyInProgressEthTx(a)
    \/ processUnstartedEthTxs(a)
    \/ saveInProgressTransaction(a)
    \/ simulateTransaction(a)
    \/ sendTransaction(a)
    \/ saveReplacementInProgressAttempt(a)
    \/ resumeCallback(a)
    \/ saveFatallyErroredTransaction(a)
    \/ saveAttempt(a)

Next ==
    \/ InsertEthTx
    \/ PruneQueue
    \/ Confirm
    \/ Crash
    \/ Start
    \/ \E a \in Addrs : WorkerStep(a)

Spec == Init /\ [][Next]_vars

\* Convergence: a run with finitely many kills, in which every step that
\* stays possible is taken in the end (the scheduler runs each Worker, the
\* operator restarts the process, the confirmer confirms), and in which a
\* collaborator that is asked again and again does not fail for ever: the
\* estimator and the key store give an attempt, the resume callback returns,
\* the node accepts the transaction.
Picked(a) == WorkerStep(a) /\ w'[a].pc = PcSaveInProgress
Resumed(a) == resumeCallback(a) /\ w'[a].pc = PcSaveFatal
Accepted(a) == handleSendError(a, NilError)

LiveNext ==
    \/ InsertEthTxLive
    \/ PruneQueue
    \/ Confirm
    \/ CrashCounted
    \/ Start
    \/ \E a \in Addrs : WorkerStep(a)

LiveSpec ==
    /\ Init
    /\ [][LiveNext]_vars
    /\ WF_vars(Start)
    /\ WF_vars(Confirm)
    /\ \A a \in Addrs :
        /\ WF_vars(WorkerStep(a))
        /\ SF_vars(Picked(a))
        /\ SF_vars(Resumed(a))
        /\ SF_vars(Accepted(a))

-----------------------------------------------------------------------------
\* Properties

AllAddrs == Addrs \cup OtherAddrs
\* the rows the Broadcaster has broadcast: unconfirmed, or confirmed since
BroadcastRows(a) == RowsOf(a, EthTxUnconfirmed) \cup RowsOf(a, EthTxConfirmed)
\* a step of the Worker of a (Crash and Start change every Worker at once
\* and leave the store alone)
WorkerMoved(a) == w'[a] # w[a] /\ started /\ started'

\* C1 (I1): for each from_address at most one EthTx is in state in_progress.
C1_AtMostOneInProgress ==
    \A a \in AllAddrs : Cardinality(RowsOf(a, EthTxInProgress)) <= 1

\* a freshly launched Worker with one row in_progress and another unstarted
C1_Witness ==
    /\ w["a1"].pc = PcGetInProgress
    /\ RowsOf("a1", EthTxInProgress) # {}
    /\ RowsOf("a1", EthTxUnstarted) # {}

\* C2: the nonces of the broadcast rows of a key are exactly
\* InitialNonce .. InitialNonce + k - 1, k the number of those rows: no nonce
\* twice, none skipped.
C2_NonceIntegrity ==
    \A a \in Addrs :
        {ethTxes[i].nonce : i \in BroadcastRows(a)} =
            InitialNonce .. (InitialNonce + Cardinality(BroadcastRows(a)) - 1)

\* two rows broadcast, the second already confirmed
C2_Witness ==
    /\ Cardinality(BroadcastRows("a1")) = 2
    /\ \E i \in RowsOf("a1", EthTxConfirmed) : ethTxes[i].nonce = InitialNonce + 1

C4_InProgressHasOneAttempt ==
    \A i \in TxIds :
        ethTxes[i].state = EthTxInProgress =>
            /\ Cardinality(AttemptsOf(i)) = 1
            /\ \A at \in AttemptsOf(i) : at.state = EthTxAttemptInProgress

\* an in_progress EthTx whose attempt is a replacement
C4_Witness ==
    \E i \in TxIds :
        /\ ethTxes[i].state = EthTxInProgress
        /\ \E at \in AttemptsOf(i) : at.id[2] = 2

\* C5 (I4): an unconfirmed EthTx has a nonce and a broadcast attempt.
C5_UnconfirmedHasBroadcastAttempt ==
    \A i \in TxIds :
        ethTxes[i].state = EthTxUnconfirmed =>
            /\ ethTxes[i].nonce # NullNonce
            /\ \E at \in AttemptsOf(i) : at.state = EthTxAttemptBroadcast

C5_Witness == \E i \in TxIds : ethTxes[i].state = EthTxUnconfirmed

\* C6 (I5): a fatal_error EthTx has no attempts, a NULL nonce and an error.
C6_FatalErrorHasNoAttempts ==
    \A i \in TxIds :
        ethTxes[i].state = EthTxFatalError =>
            /\ AttemptsOf(i) = {}
            /\ ethTxes[i].nonce = NullNonce
            /\ ethTxes[i].error # NoError

\* a fatal_error row beside a row that keeps its attempt
C6_Witness ==
    /\ \E i \in TxIds : ethTxes[i].state = EthTxFatalError
    /\ ethTxAttempts # {}

\* the answers of the node that count as "the transaction is in"
C8_SuccessKinds == {NonceTooLow, ReplacementUnderpriced, TemporarilyUnderpriced}

\* C8: NonceTooLow, ReplacementUnderpriced and TemporarilyUnderpriced are
\* taken as a success: the handling goes on to saveAttempt with the same
\* EthTx and attempt, saveAttempt makes the EthTx unconfirmed and its attempt
\* broadcast and increments next_nonce by one, and next_nonce has been
\* incremented once per broadcast EthTx, resumed or not.
C8_TreatedAsSuccess ==
    /\ [](\A a \in Addrs : nextNonce[a] - InitialNonce = Cardinality(BroadcastRows(a)))
    /\ [][\A a \in Addrs :
            /\ \A k \in C8_SuccessKinds :
                    handleSendError(a, {k}) =>
                        w'[a] = [w[a] EXCEPT !.pc = PcSaveAttempt, !.sent = {k}]
            /\ (w[a].pc = PcSaveAttempt /\ WorkerMoved(a)) =>
                    /\ ethTxes' = [ethTxes EXCEPT
                                        ![w[a].etx.id].state = EthTxUnconfirmed,
                                        ![w[a].etx.id].broadcastAt = w[a].initialBroadcastAt]
                    /\ ethTxAttempts' = (ethTxAttempts \ {w[a].attempt}) \cup
                            {[w[a].attempt EXCEPT !.state = EthTxAttemptBroadcast]}
                    /\ w[a].attempt \in ethTxAttempts
                    /\ nextNonce'[a] = nextNonce[a] + 1]_vars

\* a resumed EthTx whose re-send was answered "nonce too low"
C8_Witness ==
    /\ w["a1"].pc = PcSaveAttempt
    /\ w["a1"].resumed
    /\ w["a1"].sent = {NonceTooLow}
    /\ nextNonce["a1"] = InitialNonce + 1

\* the lexicographic order on (value, created_at, id)
C9_Key(i) == <<ethTxes[i].value, ethTxes[i].createdAt, i>>
C9_Less(k1, k2) ==
    \E n \in 1..3 : k1[n] < k2[n] /\ \A m \in 1..(n - 1) : k1[m] = k2[m]

\* C9: the row a Worker picks is the least in (value, created_at, id) among
\* the unstarted rows of its address at that moment, and it is given the
\* key's next_nonce.
C9_PickFollowsOrder ==
    [][\A a \in Addrs :
        (w'[a].pc = PcSaveInProgress /\ w[a].pc # PcSaveInProgress) =>
            /\ w'[a].etx.id \in RowsOf(a, EthTxUnstarted)
            /\ w'[a].etx.nonce = nextNonce[a]
            /\ \A j \in RowsOf(a, EthTxUnstarted) \ {w'[a].etx.id} :
                    C9_Less(C9_Key(w'[a].etx.id), C9_Key(j))]_vars

\* the row picked is not the oldest unstarted row of the address
C9_Witness ==
    /\ w["a1"].pc = PcSaveInProgress
    /\ w["a1"].etx.id \in RowsOf("a1", EthTxUnstarted)
    /\ \E j \in RowsOf("a1", EthTxUnstarted) : j < w["a1"].etx.id

\* the states the Broadcaster leaves a row in, and those that follow them
C10_Final == {EthTxUnconfirmed, EthTxConfirmed, EthTxFatalError}

\* C10: a step of a Worker deletes no row and changes a row only from
\* unstarted to in_progress or from in_progress to unconfirmed or
\* fatal_error; rows that are unconfirmed, confirmed or fatal_error keep
\* their fields and their attempts.
C10_OnlyForward ==
    [][\A a \in Addrs :
        WorkerMoved(a) =>
            /\ DOMAIN ethTxes' = DOMAIN ethTxes
            /\ \A i \in TxIds :
                \/ /\ ethTxes'[i] = ethTxes[i]
                   /\ ethTxes[i].state \in C10_Final =>
                        {at \in ethTxAttempts' : at.ethTxId = i} = AttemptsOf(i)
                \/ /\ ethTxes[i].state = EthTxUnstarted
                   /\ ethTxes'[i].state = EthTxInProgress
                \/ /\ ethTxes[i].state = EthTxInProgress
                   /\ ethTxes'[i].state \in {EthTxUnconfirmed, EthTxFatalError}]_vars

\* a Worker about to save a fatal error while another row is unconfirmed
C10_Witness ==
    /\ w["a1"].pc = PcSaveFatal
    /\ \E i \in TxIds : ethTxes[i].state = EthTxUnconfirmed

\* row i has been broadcast or has failed for good, or is no longer there
C7_Resolved(i) ==
    i \in TxIds => ethTxes[i].state \in {EthTxUnconfirmed, EthTxConfirmed, EthTxFatalError}
\* row i of a registered address is unstarted or in_progress
C7_Pending(i) ==
    /\ i \in TxIds
    /\ ethTxes[i].from \in Addrs
    /\ ethTxes[i].state \in {EthTxUnstarted, EthTxInProgress}

C11_FatalSendError ==
    [][\A a \in Addrs :
        /\ \A k \in {TooExpensive, Fatal} :
                handleSendError(a, {k}) =>
                    /\ w'[a].pc \in {PcResume, PcSaveFatal}
                    /\ w'[a].etx = [w[a].etx EXCEPT !.error = "send error"]
                    /\ store' = store
        /\ (w[a].pc = PcSaveFatal /\ WorkerMoved(a) /\ ethTxes' # ethTxes) =>
                /\ ethTxes'[w[a].etx.id].state = EthTxFatalError
                /\ ethTxes'[w[a].etx.id].nonce = NullNonce
                /\ ethTxes'[w[a].etx.id].error = w[a].etx.error
                /\ {at \in ethTxAttempts' : at.ethTxId = w[a].etx.id} = {}
                /\ w[a].etx.nonce = nextNonce[a]
                /\ nextNonce' = nextNonce
                /\ w'[a].pc = PcLoop
        /\ (w[a].pc = PcLoop /\ w'[a].pc = PcSaveInProgress) =>
                w'[a].etx.nonce = nextNonce[a]]_vars

\* after a send error made a row fatal_error, the next row is picked with
\* the nonce that row had
C11_Witness ==
    /\ w["a1"].pc = PcSaveInProgress
    /\ w["a1"].etx.nonce = InitialNonce
    /\ nextNonce["a1"] = InitialNonce
    /\ \E i \in RowsOf("a1", EthTxFatalError) : ethTxes[i].error = "send error"

\* C12: a send answered InsufficientEth or with an unclassified error writes
\* nothing and ends the cycle, the row being in_progress with its nonce and
\* its one in_progress attempt, and next_nonce as before; and a Worker that
\* begins a cycle while a row of its address is in_progress takes up that
\* row with that attempt and picks no other.
C12_TransientSendError ==
    [][\A a \in Addrs :
        /\ \A k \in {InsufficientEth, Unknown} :
                handleSendError(a, {k}) =>
                    /\ store' = store
                    /\ w'[a].pc = PcWait
                    /\ ethTxes[w[a].etx.id].state = EthTxInProgress
                    /\ ethTxes[w[a].etx.id].nonce = w[a].etx.nonce
                    /\ AttemptsOf(w[a].etx.id) = {w[a].attempt}
                    /\ w[a].attempt.state = EthTxAttemptInProgress
        /\ (/\ w[a].pc \in {PcWait, PcGetInProgress}
            /\ WorkerMoved(a)
            /\ RowsOf(a, EthTxInProgress) # {}) =>
                /\ store' = store
                /\ w'[a].pc \in {PcSimulate, PcSend}
                /\ w'[a].etx.id \in RowsOf(a, EthTxInProgress)
                /\ w'[a].etx = ethTxes[w'[a].etx.id]
                /\ AttemptsOf(w'[a].etx.id) = {w'[a].attempt}]_vars

\* a Worker waiting after a failed cycle, a row in_progress and another
\* unstarted
C12_Witness ==
    /\ started
    /\ w["a1"].pc = PcWait
    /\ RowsOf("a1", EthTxInProgress) # {}
    /\ RowsOf("a1", EthTxUnstarted) # {}

-----------------------------------------------------------------------------
\* A wallet that cannot pay: the balance of the key covers the gas of a
\* transaction and no value, so the node answers InsufficientEth to every
\* send of a row with value > 0 and accepts the others.  The producers insert
\* rows with and without value; no strategy prunes, nobody kills the process.
FundsTxInputs ==
    {[from |-> "a1", value |-> v, createdAt |-> 0, subject |-> NoSubject,
      simulate |-> FALSE, taskRun |-> FALSE] : v \in {0, 1}}
InsertEthTxFunds == Insert(FundsTxInputs, MaxTx)

sendTransactionFunds(a) ==
    handleSendError(a, IF w[a].etx.value > 0 THEN {InsufficientEth} ELSE NilError)

FundsWorkerStep(a) ==
    \/ handleAnyInProgressEthTx(a)
    \/ processUnstartedEthTxs(a)
    \/ saveInProgressTransaction(a)
    \/ sendTransactionFunds(a)
    \/ saveAttempt(a)

FundsPicked(a) == FundsWorkerStep(a) /\ w'[a].pc = PcSaveInProgress

FundsNext ==
    \/ InsertEthTxFunds
    \/ Confirm
    \/ Start
    \/ \E a \in Addrs : FundsWorkerStep(a)

\* the scheduler runs each Worker, the confirmer confirms, and the estimator
\* and the key store do not fail for ever
FundsSpec ==
    /\ Init
    /\ [][FundsNext]_vars
    /\ WF_vars(Start)
    /\ WF_vars(Confirm)
    /\ \A a \in Addrs :
        /\ WF_vars(FundsWorkerStep(a))
        /\ SF_vars(FundsPicked(a))

\* row i is unstarted, of a registered address and without value
C13_CheapUnstarted(i) ==
    /\ i \in TxIds
    /\ ethTxes[i].from \in Addrs
    /\ ethTxes[i].state = EthTxUnstarted
    /\ ethTxes[i].value = 0
\* row i has been broadcast
C13_Broadcast(i) ==
    i \in TxIds /\ ethTxes[i].state \in {EthTxUnconfirmed, EthTxConfirmed}
\* a row with value of address a is in_progress, or is the row the Worker has
\* picked and is about to save as in_progress
C13_Blocking(a) ==
    \/ \E j \in RowsOf(a, EthTxInProgress) : ethTxes[j].value > 0
    \/ w[a].pc = PcSaveInProgress /\ w[a].etx.value > 0

\* C13: a row without value that is unstarted while no row with value has
\* been picked is broadcast in the end; and while a row of an address is
\* in_progress no other row of that address leaves unstarted, whatever its
\* value and whenever it was inserted.
C13_CheaperFirstThenBlocked ==
    /\ \A i \in 1..MaxTx :
            (C13_CheapUnstarted(i) /\ ~C13_Blocking(ethTxes[i].from)) ~> C13_Broadcast(i)
    /\ [][\A a \in Addrs : \A j \in RowsOf(a, EthTxInProgress) :
            \A i \in RowsOf(a, EthTxUnstarted) :
                ethTxes'[j].state = EthTxInProgress => ethTxes'[i].state = EthTxUnstarted]_vars

\* C13 as stated: every unstarted row with a lower value than a row that is
\* in_progress is broadcast in the end.
C13_AsStated ==
    \A i \in 1..MaxTx :
        (/\ C13_CheapUnstarted(i)
         /\ \E j \in RowsOf(ethTxes[i].from, EthTxInProgress) :
                ethTxes[j].value > ethTxes[i].value)
            ~> C13_Broadcast(i)

\* a row with value is in_progress and waits for funds, a row without value
\* inserted after it is unstarted
C13_Witness ==
    /\ w["a1"].pc = PcWait
    /\ \E j \in RowsOf("a1", EthTxInProgress), i \in RowsOf("a1", EthTxUnstarted) :
            /\ ethTxes[j].value > ethTxes[i].value
            /\ j < i

-----------------------------------------------------------------------------
\* C14: for a legacy attempt answered TerminallyUnderpriced the Worker writes
\* nothing and either ends the cycle (the estimator fails, or the price is at
\* its ceiling) or stands before saveReplacementInProgressAttempt with a
\* legacy attempt for the same EthTx at a price not below the old one; the
\* save swaps the two attempts in one step, leaves the EthTx and next_nonce
\* alone and is followed by the handling of the replacement; and saveAttempt
\* for a replacement leaves the EthTx unconfirmed with the replacement,
\* broadcast, as its only attempt and next_nonce one higher.
C14_BumpAndResend ==
    [][\A a \in Addrs :
        /\ (handleSendError(a, {TerminallyUnderpriced}) /\ w[a].attempt.txType = 0) =>
                /\ store' = store
                /\ \/ w'[a].pc = PcWait
                   \/ /\ w'[a].pc = PcSaveReplacement
                      /\ w'[a].etx = w[a].etx
                      /\ w'[a].attempt = w[a].attempt
                      /\ w'[a].repl.ethTxId = w[a].etx.id
                      /\ w'[a].repl.txType = 0
                      /\ w'[a].repl.state = EthTxAttemptInProgress
                      /\ w'[a].repl.gasPrice >= w[a].attempt.gasPrice
        /\ (w[a].pc = PcSaveReplacement /\ WorkerMoved(a) /\ store' # store) =>
                /\ w[a].attempt \in ethTxAttempts
                /\ w'[a].attempt \notin ethTxAttempts
                /\ ethTxAttempts' = (ethTxAttempts \ {w[a].attempt}) \cup {w'[a].attempt}
                /\ w'[a].attempt.ethTxId = w[a].etx.id
                /\ w'[a].attempt.gasPrice = w[a].repl.gasPrice
                /\ w'[a].etx = w[a].etx
                /\ w'[a].pc \in {PcSimulate, PcSend}
                /\ ethTxes' = ethTxes
                /\ nextNonce' = nextNonce
        /\ (w[a].pc = PcSaveAttempt /\ WorkerMoved(a) /\ store' # store
                /\ w[a].attempt.id[2] > 1) =>
                /\ ethTxes'[w[a].etx.id].state = EthTxUnconfirmed
                /\ ethTxes'[w[a].etx.id].nonce = w[a].etx.nonce
                /\ {at \in ethTxAttempts' : at.ethTxId = w[a].etx.id} =
                        {[w[a].attempt EXCEPT !.state = EthTxAttemptBroadcast]}
                /\ nextNonce'[a] = nextNonce[a] + 1
                /\ nextNonce'[a] - InitialNonce =
                        Cardinality({i \in DOMAIN ethTxes' : /\ ethTxes'[i].from = a
                                                             /\ ethTxes'[i].state \in
                                                                {EthTxUnconfirmed, EthTxConfirmed}})]_vars

\* an unconfirmed EthTx whose one attempt is a legacy replacement at a
\* higher price, broadcast
C14_Witness ==
    \E i \in RowsOf("a1", EthTxUnconfirmed) :
        /\ \A at \in AttemptsOf(i) :
                /\ at.id[2] = 2
                /\ at.txType = 0
                /\ at.gasPrice = EvmMaxGasPriceWei
                /\ at.state = EthTxAttemptBroadcast
        /\ AttemptsOf(i) # {}
        /\ nextNonce["a1"] = InitialNonce + 1

\* C15: for an attempt of type 0x2 answered TerminallyUnderpriced the
\* handling returns an error: nothing is written, no replacement is built or
\* saved, the cycle ends, and the EthTx is as before, in_progress with its
\* nonce and that one attempt; it does not go on to saveAttempt.
C15_DynamicFeeNotBumped ==
    [][\A a \in Addrs :
        (handleSendError(a, {TerminallyUnderpriced}) /\ w[a].attempt.txType = 2) =>
            /\ store' = store
            /\ w'[a].pc = PcWait
            /\ w'[a].pc \notin {PcSaveAttempt, PcSaveReplacement}
            /\ w'[a].repl = NoAttempt
            /\ ethTxes'[w[a].etx.id].state = EthTxInProgress
            /\ ethTxes'[w[a].etx.id].nonce = w[a].etx.nonce
            /\ {at \in ethTxAttempts' : at.ethTxId = w[a].etx.id} = {w[a].attempt}
            /\ nextNonce'[a] = w[a].etx.nonce]_vars

\* a cycle has ended with an EthTx in_progress whose attempt is of type 0x2
C15_Witness ==
    /\ started
    /\ w["a1"].pc = PcWait
    /\ \E i \in RowsOf("a1", EthTxInProgress) : \E at \in AttemptsOf(i) : at.txType = 2

-----------------------------------------------------------------------------
\* A node that rejects every fee: it answers FeeTooLow or FeeTooHigh to every
\* attempt, the first and each replacement.  The estimator may fail or give
\* any price.  A replacement is stored under the id its predecessor, deleted
\* in the same transaction, does not use: ids are only compared among the
\* attempts that exist.
FeeTxInputs ==
    {[from |-> "a1", value |-> v, createdAt |-> 0, subject |-> NoSubject,
      simulate |-> FALSE, taskRun |-> FALSE] : v \in {0, 1}}
InsertEthTxFee == Insert(FeeTxInputs, MaxTx)

InsertAttemptReusing(attempt, previous) ==
    [attempt EXCEPT !.id = <<attempt.ethTxId, IF previous.id[2] = 1 THEN 2 ELSE 1>>]

sendTransactionFee(a) ==
    \E k \in {FeeTooLow, FeeTooHigh} : handleSendError(a, {k})

saveReplacementInProgressAttemptFee(a) ==
    saveReplacementInProgressAttemptAs(a, InsertAttemptReusing(w[a].repl, w[a].attempt))

\* no handling comes back to the loop of processUnstartedEthTxs here
FeeWorkerStep(a) ==
    \/ handleAnyInProgressEthTx(a)
    \/ saveInProgressTransaction(a)
    \/ sendTransactionFee(a)
    \/ saveReplacementInProgressAttemptFee(a)

FeeNext ==
    \/ InsertEthTxFee
    \/ Crash
    \/ Start
    \/ \E a \in Addrs : FeeWorkerStep(a)

\* the process is restarted and the scheduler runs each Worker
FeeSpec ==
    /\ Init
    /\ [][FeeNext]_vars
    /\ WF_vars(Start)
    /\ \A a \in Addrs : WF_vars(FeeWorkerStep(a))

\* C16 as stated: the handling of an EthTx that has got to the send comes to
\* an end (the cycle ends, the loop goes on, or the process is killed) also
\* when the node answers FeeTooLow or FeeTooHigh to every attempt.
C16_HandlingTerminates ==
    \A a \in Addrs :
        (w[a].pc = PcSend) ~> (w[a].pc \in {PcWait, PcLoop, PcNotRunning})

-----------------------------------------------------------------------------
\* A key with a cap on its transactions in flight: EvmMaxInFlightTransactions
\* is 1 whenever it is read.  The node accepts a transaction or fails in a
\* way that ends the cycle.
EvmMaxInFlightTransactions == 1

ThrottleTxInputs ==
    {[from |-> "a1", value |-> 0, createdAt |-> 0, subject |-> NoSubject,
      simulate |-> FALSE, taskRun |-> FALSE]}
InsertEthTxThrottle == Insert(ThrottleTxInputs, MaxTx)

sendTransactionThrottle(a) ==
    \E sendError \in {NilError, {Unknown}} : handleSendError(a, sendError)

ThrottleWorkerStep(a) ==
    \/ handleAnyInProgressEthTxFrom(a, LoopTurnWith(a, EvmMaxInFlightTransactions))
    \/ processUnstartedEthTxsFrom(a, LoopTurnWith(a, EvmMaxInFlightTransactions))
    \/ saveInProgressTransaction(a)
    \/ sendTransactionThrottle(a)
    \/ saveAttempt(a)

ThrottleNext ==
    \/ InsertEthTxThrottle
    \/ Confirm
    \/ Crash
    \/ Start
    \/ \E a \in Addrs : ThrottleWorkerStep(a)

ThrottleSpec == Init /\ [][ThrottleNext]_vars

\* the unconfirmed rows of address a
C17_InFlight(a) ==
    Cardinality({i \in TxIds : ethTxes[i].from = a /\ ethTxes[i].state = EthTxUnconfirmed})

\* C17: with a cap above 0 the Worker picks a row, and a row of its address
\* goes from unstarted to in_progress, only while fewer rows than the cap
\* are unconfirmed; a turn of the loop taken with the cap reached writes
\* nothing and leads back to the head of the loop; and read as 0 the cap
\* never sends a turn back to the head of the loop: a turn ends the cycle or
\* picks, and it can pick whenever a row is unstarted.
C17_Throttle ==
    /\ [][\A a \in Addrs :
            /\ (w'[a].pc = PcSaveInProgress /\ w[a].pc # PcSaveInProgress) =>
                    C17_InFlight(a) < EvmMaxInFlightTransactions
            /\ (\E i \in TxIds : /\ ethTxes[i].from = a
                                 /\ ethTxes[i].state = EthTxUnstarted
                                 /\ i \in DOMAIN ethTxes'
                                 /\ ethTxes'[i].state = EthTxInProgress) =>
                    C17_InFlight(a) < EvmMaxInFlightTransactions
            /\ (/\ C17_InFlight(a) >= EvmMaxInFlightTransactions
                /\ WorkerMoved(a)
                /\ \/ w[a].pc = PcLoop
                   \/ w[a].pc \in {PcWait, PcGetInProgress} /\ RowsOf(a, EthTxInProgress) = {}) =>
                    /\ w'[a].pc = PcLoop
                    /\ store' = store]_vars
    /\ [](\A a \in Addrs :
            /\ \A next \in LoopTurnWith(a, 0) : next.pc \in {PcWait, PcSaveInProgress}
            /\ RowsOf(a, EthTxUnstarted) # {} =>
                    \E next \in LoopTurnWith(a, 0) : next.pc = PcSaveInProgress)

\* the Worker is held at the head of the loop: the cap is reached and a row
\* is unstarted
C17_Witness ==
    /\ w["a1"].pc = PcLoop
    /\ C17_InFlight("a1") >= EvmMaxInFlightTransactions
    /\ RowsOf("a1", EthTxUnstarted) # {}

-----------------------------------------------------------------------------
\* Shutdown.  EvmMaxInFlightTransactions is 1, the node accepts every
\* transaction and the process is not killed, so that no row is left
\* in_progress for a later cycle to resume.

\* StopOnce runs the function it is given only at the first call of Close
\* after Start
StopOnce == started /\ ~svc.chStop

\* Close: the listener is closed and chStop is closed; eb.wg.Wait() is
\* CloseReturns.
Close ==
    /\ StopOnce
    /\ svc' = [svc EXCEPT !.chStop = TRUE]
    /\ UNCHANGED <<store, started, w, crashes>>

\* ethTxInsertTriggerer: case <-eb.chStop: return
ethTxInsertTriggerer ==
    /\ svc.chStop
    /\ svc.triggerer
    /\ svc' = [svc EXCEPT !.triggerer = FALSE]
    /\ UNCHANGED <<store, started, w, crashes>>

\* monitorEthTxs with ctx done: a cycle that begins returns at the ctx.Err()
\* checks after getInProgressEthTx, and the select takes <-ctx.Done().
monitorEthTxsDone(a) ==
    /\ svc.chStop
    /\ w[a].pc \in {PcGetInProgress, PcWait}
    /\ w' = [w EXCEPT ![a] = NoWorker]
    /\ UNCHANGED <<store, started, crashes, svc>>

\* eb.wg.Wait() returns: the triggerer and every Worker have called wg.Done
CloseReturns ==
    /\ svc.chStop
    /\ ~svc.closed
    /\ ~svc.triggerer
    /\ \A a \in Addrs : w[a].pc = PcNotRunning
    /\ svc' = [svc EXCEPT !.closed = TRUE]
    /\ UNCHANGED <<store, started, w, crashes>>

sendTransactionAccepted(a) == handleSendError(a, NilError)

\* The Worker's steps.  ctx is read at the head of a cycle only: the loop of
\* processUnstartedEthTxs, the estimator, the send and the saves do not
\* look at it.
ShutdownWorkerStep(a) ==
    \/ /\ ~svc.chStop
       /\ handleAnyInProgressEthTxFrom(a, LoopTurnWith(a, EvmMaxInFlightTransactions))
    \/ monitorEthTxsDone(a)
    \/ processUnstartedEthTxsFrom(a, LoopTurnWith(a, EvmMaxInFlightTransactions))
    \/ saveInProgressTransaction(a)
    \/ sendTransactionAccepted(a)
    \/ saveAttempt(a)

ShutdownNext ==
    \/ InsertEthTxThrottle
    \/ Confirm
    \/ Start
    \/ Close
    \/ ethTxInsertTriggerer
    \/ CloseReturns
    \/ \E a \in Addrs : ShutdownWorkerStep(a)

\* Every goroutine gets to run; the confirmer is under no obligation, so the
\* in-flight cap may stay reached.
ShutdownSpec ==
    /\ Init
    /\ [][ShutdownNext]_vars
    /\ WF_vars(Start)
    /\ WF_vars(ethTxInsertTriggerer)
    /\ WF_vars(CloseReturns)
    /\ \A a \in Addrs : WF_vars(ShutdownWorkerStep(a))

\* C18 as stated: once Close has signalled stop, every Worker and the
\* triggerer exit and Close returns, whatever a Worker is doing at that
\* moment, also when it is in the throttle loop and the in-flight cap stays
\* reached.
C18_ShutdownTerminates == svc.chStop ~> svc.closed

-----------------------------------------------------------------------------
\* C19: when the row the Worker has picked is gone from eth_txes by the time
\* of saveInProgressTransaction, the save leaves every table and next_nonce
\* as they are and the Worker goes back to the head of the loop of the same
\* cycle, with the nonce it gave the removed row still the next one; and
\* every pick made from the head of the loop takes an unstarted row and
\* gives it next_nonce.
C19_RemovedBeforeSave ==
    [][\A a \in Addrs :
        /\ (/\ w[a].pc = PcSaveInProgress
            /\ w[a].etx.id \notin TxIds
            /\ WorkerMoved(a)) =>
                /\ store' = store
                /\ w'[a].pc = PcLoop
                /\ nextNonce'[a] = w[a].etx.nonce
        /\ (/\ w[a].pc = PcLoop
            /\ w'[a].pc = PcSaveInProgress) =>
                /\ w'[a].etx.id \in TxIds
                /\ ethTxes[w'[a].etx.id].state = EthTxUnstarted
                /\ w'[a].etx.nonce = nextNonce[a]]_vars

\* the Worker is about to save a row that was pruned after it was picked,
\* and another row of the address is unstarted
C19_Witness ==
    \E a \in Addrs :
        /\ w[a].pc = PcSaveInProgress
        /\ w[a].etx.id \notin TxIds
        /\ RowsOf(a, EthTxUnstarted) # {}

-----------------------------------------------------------------------------
\* the Worker holds an EthTx whose simulation reverted
C20_Reverted(a) == w[a].etx # NoEthTx /\ w[a].etx.error = ErrReverted

\* what follows a simulation: a revert leads to saveFatallyErroredTransaction
\* with the error set, anything else to the send of the same attempt; and a
\* reverted EthTx is never at the send
C20_Outcomes ==
    \A a \in Addrs :
        /\ w[a].pc = PcSimulate =>
            /\ handleSimulation(a, TRUE).pc \in {PcResume, PcSaveFatal}
            /\ handleSimulation(a, TRUE).etx = [w[a].etx EXCEPT !.error = ErrReverted]
            /\ handleSimulation(a, FALSE) = [w[a] EXCEPT !.pc = PcSend]
        /\ C20_Reverted(a) => w[a].pc \in {PcResume, PcSaveFatal}

\* the steps from the simulation to the save; the Worker's position after
\* the save of a reverted EthTx is after
C20_Steps(after) ==
    \A a \in Addrs :
        /\ (w[a].pc = PcSimulate /\ WorkerMoved(a)) =>
            /\ store' = store
            /\ w'[a] \in {handleSimulation(a, TRUE), handleSimulation(a, FALSE)}
        /\ (C20_Reverted(a) /\ w[a].pc = PcResume /\ WorkerMoved(a)) =>
            /\ store' = store
            /\ \/ w'[a].pc = PcWait
               \/ w'[a] = [w[a] EXCEPT !.pc = PcSaveFatal]
        /\ (C20_Reverted(a) /\ w[a].pc = PcSaveFatal /\ WorkerMoved(a)) =>
            /\ ethTxes'[w[a].etx.id].state = EthTxFatalError
            /\ ethTxes'[w[a].etx.id].error = ErrReverted
            /\ w'[a].pc = after

\* C20: with etx.Simulate, a revert of the simulation sends the EthTx to
\* saveFatallyErroredTransaction with nothing written and no send for the
\* attempt, the save makes the row fatal_error, and the Worker is then back
\* at the head of the loop of the same cycle (the cycle ends only when the
\* resume callback fails); any other result of the simulation is followed by
\* the send of the same attempt.
C20_SimulationRevert == []C20_Outcomes /\ [][C20_Steps(PcLoop)]_vars

\* C20 as stated: the same, but the save of the reverted EthTx ends the
\* Worker's cycle.
C20_AsStated == []C20_Outcomes /\ [][C20_Steps(PcWait)]_vars

\* a row is fatal_error for a revert, another row of the address is
\* unstarted and the Worker is at the head of the loop
C20_Witness ==
    \E i \in TxIds :
        /\ ethTxes[i].state = EthTxFatalError
        /\ ethTxes[i].error = ErrReverted
        /\ w[ethTxes[i].from].pc = PcLoop
        /\ RowsOf(ethTxes[i].from, EthTxUnstarted) # {}

-----------------------------------------------------------------------------
\* A key whose eth_key_states row is changed out of band: an operator or
\* another process sets next_nonce to some value, deletes the row or puts it
\* back.  The node accepts every transaction.
KeyTxInputs ==
    {[from |-> "a1", value |-> 0, createdAt |-> 0, subject |-> NoSubject,
      simulate |-> FALSE, taskRun |-> FALSE]}
InsertEthTxKey == Insert(KeyTxInputs, MaxTx)

KeyStateValues == {NoKeyState} \cup (InitialNonce..(InitialNonce + MaxTx))

ExternalKeyStateChange ==
    \E a \in Addrs, v \in KeyStateValues :
        /\ v # nextNonce[a]
        /\ nextNonce' = [nextNonce EXCEPT ![a] = v]
        /\ UNCHANGED <<ethTxes, ethTxAttempts, ethTxSeq, started, w, crashes, svc>>

KeyWorkerStep(a) ==
    \/ handleAnyInProgressEthTx(a)
    \/ processUnstartedEthTxs(a)
    \/ saveInProgressTransaction(a)
    \/ sendTransactionAccepted(a)
    \/ saveAttempt(a)

KeyNext ==
    \/ InsertEthTxKey
    \/ ExternalKeyStateChange
    \/ Crash
    \/ Start
    \/ \E a \in Addrs : KeyWorkerStep(a)

KeySpec == Init /\ [][KeyNext]_vars

\* the Worker of a holds an EthTx whose nonce is not the stored next_nonce
C21_Mismatch(a) == w[a].etx # NoEthTx /\ nextNonce[a] # w[a].etx.nonce

\* C21: a saveAttempt that finds next_nonce different from the nonce of the
\* EthTx, or no eth_key_states row, writes nothing and ends the cycle with
\* the EthTx and its attempt still in_progress; the Worker changes next_nonce
\* only from the nonce of the EthTx it saves to the one after it; and a cycle
\* that begins with that row in_progress takes it up again, so that the
\* failure comes back for as long as the stored value differs.
C21_NonceMismatch ==
    /\ [][\A a \in Addrs :
            /\ (w[a].pc = PcSaveAttempt /\ WorkerMoved(a) /\ C21_Mismatch(a)) =>
                /\ store' = store
                /\ w'[a].pc = PcWait
                /\ ethTxes[w[a].etx.id].state = EthTxInProgress
                /\ AttemptsOf(w[a].etx.id) = {w[a].attempt}
                /\ w[a].attempt.state = EthTxAttemptInProgress
            /\ (WorkerMoved(a) /\ nextNonce' # nextNonce) =>
                /\ w[a].pc = PcSaveAttempt
                /\ nextNonce[a] = w[a].etx.nonce
                /\ nextNonce' = [nextNonce EXCEPT ![a] = @ + 1]
            /\ (/\ w[a].pc \in {PcWait, PcGetInProgress}
                /\ WorkerMoved(a)
                /\ RowsOf(a, EthTxInProgress) # {}) =>
                    /\ w'[a].pc = PcSend
                    /\ w'[a].etx.id \in RowsOf(a, EthTxInProgress)
                    /\ w'[a].resumed]_vars

\* the failure has come back: a row taken up again in a later cycle is at
\* saveAttempt with next_nonce still different from its nonce
C21_Witness ==
    \E a \in Addrs :
        /\ w[a].pc = PcSaveAttempt
        /\ w[a].resumed
        /\ C21_Mismatch(a)

-----------------------------------------------------------------------------
\* Wake-ups.  Trigger may be called at any moment for any address, by a
\* producer or by ethTxInsertTriggerer for a notification; a notification
\* may as well never come.  EvmMaxInFlightTransactions is 0 and the node
\* accepts every transaction.

\* (changed) triggerCh <- struct{}{} without the default case and on a
\* channel that takes any number of values
TriggerSendUnbounded(pending) == pending + 1

\* select { case triggerCh <- struct{}{}: default: }
TriggerSend(pending) == IF pending < TriggerBuffer THEN pending + 1 ELSE pending

\* IfStarted: StartOnce has completed and StopOnce has not begun
IfStarted == started /\ ~svc.chStop

\* Trigger(addr)
Trigger(addr) ==
    /\ IF IfStarted /\ addr \in DOMAIN svc.triggers
       THEN svc' = [svc EXCEPT !.triggers[addr] = TriggerSend(@)]
       ELSE UNCHANGED svc
    /\ UNCHANGED <<store, started, w, crashes>>

\* (changed) a trigger starts a cycle whatever the Worker is doing
wakeByTriggerAnytime(a) ==
    /\ w[a].pc # PcNotRunning
    /\ svc.triggers[a] > 0
    /\ svc' = [svc EXCEPT !.triggers[a] = @ - 1]
    /\ w' = [w EXCEPT ![a].pc = PcGetInProgress]
    /\ UNCHANGED <<store, started, crashes>>

\* monitorEthTxs, select: case <-triggerCh: continue
wakeByTrigger(a) ==
    /\ w[a].pc = PcWait
    /\ svc.triggers[a] > 0
    /\ svc' = [svc EXCEPT !.triggers[a] = @ - 1]
    /\ w' = [w EXCEPT ![a].pc = PcGetInProgress]
    /\ UNCHANGED <<store, started, crashes>>

\* (changed) the poll timer never fires
wakeByPollTimerNever(a) == FALSE /\ UNCHANGED vars

\* monitorEthTxs, select: case <-pollDBTimer.C: continue
wakeByPollTimer(a) ==
    /\ w[a].pc = PcWait
    /\ w' = [w EXCEPT ![a].pc = PcGetInProgress]
    /\ UNCHANGED <<store, started, crashes, svc>>

WakeWorkerStep(a) ==
    \/ wakeByTrigger(a)
    \/ wakeByPollTimer(a)
    \/ /\ w[a].pc = PcGetInProgress
       /\ ~svc.chStop
       /\ handleAnyInProgressEthTxFrom(a, LoopTurnWith(a, 0))
    \/ monitorEthTxsDone(a)
    \/ processUnstartedEthTxsFrom(a, LoopTurnWith(a, 0))
    \/ saveInProgressTransaction(a)
    \/ sendTransactionAccepted(a)
    \/ saveAttempt(a)

WakeNext ==
    \/ InsertEthTxKey
    \/ \E addr \in AllAddrs : Trigger(addr)
    \/ Start
    \/ Close
    \/ Crash
    \/ ethTxInsertTriggerer
    \/ CloseReturns
    \/ \E a \in Addrs : WakeWorkerStep(a)

WakeSpec == Init /\ [][WakeNext]_vars

\* the Worker of a takes a value from its trigger channel
C22_Woken(a) ==
    /\ w[a].pc = PcWait
    /\ w'[a].pc = PcGetInProgress
    /\ svc'.triggers[a] = svc.triggers[a] - 1

\* C22: Trigger can always be taken to its end; a key has at most one
\* wake-up pending; the number pending for a key goes up only by one, from
\* none, while the Broadcaster is started and not closed, with nothing else
\* changed, and goes down only when its Worker takes it or the process is
\* killed; and a Trigger for an address that is not registered, before
\* Start, after Close or with a wake-up pending changes nothing.
C22_TriggerCoalesces ==
    /\ [](\A addr \in AllAddrs : ENABLED Trigger(addr))
    /\ [](\A a \in Addrs : svc.triggers[a] \in 0..TriggerBuffer)
    /\ [][\A a \in Addrs :
            /\ svc'.triggers[a] > svc.triggers[a] =>
                /\ svc.triggers[a] = 0
                /\ IfStarted
                /\ svc' = [svc EXCEPT !.triggers[a] = 1]
                /\ UNCHANGED <<store, started, w, crashes>>
            /\ svc'.triggers[a] < svc.triggers[a] =>
                C22_Woken(a) \/ ~started']_vars
    /\ [][\A addr \in AllAddrs :
            (/\ Trigger(addr)
             /\ \/ addr \notin Addrs
                \/ ~started
                \/ svc.chStop
                \/ svc.triggers[addr] = TriggerBuffer) => UNCHANGED vars]_vars

\* a Trigger has come for a key whose wake-up is already pending, while its
\* Worker is in the middle of a cycle
C22_Witness ==
    \E a \in Addrs :
        /\ svc.triggers[a] = TriggerBuffer
        /\ w[a].pc = PcSaveAttempt
        /\ IfStarted

\* Every Worker gets to run, and the poll timer fires in the end; nothing is
\* asked of Trigger.
WakeLiveSpec ==
    /\ Init
    /\ [][WakeNext]_vars
    /\ \A a \in Addrs : WF_vars(WakeWorkerStep(a))

\* row i is an unstarted row of a
C23_Unstarted(a, i) ==
    /\ i \in TxIds
    /\ ethTxes[i].from = a
    /\ ethTxes[i].state = EthTxUnstarted

\* C23: while the Broadcaster is started and not closed, an unstarted row of
\* a registered address leads to its Worker standing before a read of the
\* unstarted rows (at the start of a cycle or at the head of the loop), or
\* to the row being unstarted no more, whether or not a Trigger came for
\* it.
C23_NoInsertMissed ==
    \A a \in Addrs : \A i \in 1..MaxTx :
        (C23_Unstarted(a, i) /\ IfStarted) ~>
            \/ w[a].pc \in {PcGetInProgress, PcLoop}
            \/ ~C23_Unstarted(a, i)
            \/ ~IfStarted

\* a row is unstarted while the Worker of its address waits and no wake-up
\* is pending
C23_Witness ==
    \E a \in Addrs : \E i \in TxIds :
        /\ C23_Unstarted(a, i)
        /\ IfStarted
        /\ w[a].pc = PcWait
        /\ svc.triggers[a] = 0

-----------------------------------------------------------------------------
\* C24: the body of Start runs at most once on an EthBroadcaster, and not
\* after Close: a Start after a Start or after a Close, and a Close after a
\* Close, cannot take effect; a Worker or the triggerer is launched only by
\* that one run, and chStop, once closed, stays closed until the process is
\* gone.
C24_SingleShot ==
    /\ [](/\ svc.launches <= 1
          /\ started => ~ENABLED Start
          /\ svc.chStop => ~ENABLED Start /\ ~ENABLED Close
          /\ (svc.triggerer \/ \E a \in Addrs : w[a].pc # PcNotRunning) => svc.launches = 1)
    /\ [][/\ svc'.launches # svc.launches =>
                \/ svc.launches = 0 /\ svc'.launches = 1 /\ ~svc.chStop
                \/ ~started'
          /\ \A a \in Addrs :
                (w[a].pc = PcNotRunning /\ w'[a].pc # PcNotRunning) => svc.launches = 0
          /\ (~svc.triggerer /\ svc'.triggerer) => svc.launches = 0
          /\ (svc.chStop /\ ~svc'.chStop) => ~started']_vars

\* Close has returned, every Worker and the triggerer are gone, and the
\* EthBroadcaster is not started anew
C24_Witness ==
    /\ svc.closed
    /\ svc.launches = 1
    /\ started
    /\ \A a \in Addrs : w[a].pc = PcNotRunning

-----------------------------------------------------------------------------
\* Start with a subscription and a nonce sync that may fail.  The node
\* accepts every transaction.

\* what a successful SyncAll may leave in next_nonce: the stored value, or a
\* higher one seen on the chain
SyncedNonces ==
    {n \in [Addrs -> InitialNonce..(InitialNonce + MaxTx)] :
        \A a \in Addrs : n[a] \in {nextNonce[a], nextNonce[a] + 1}}

StartAny ==
    \E subscribed \in BOOLEAN, autoSync \in BOOLEAN, synced \in BOOLEAN :
        \E syncedNonce \in SyncedNonces :
            StartWith(subscribed, autoSync, synced, syncedNonce)

StartNext ==
    \/ InsertEthTxKey
    \/ StartAny
    \/ Crash
    \/ \E a \in Addrs : KeyWorkerStep(a)

StartSpec == Init /\ [][StartNext]_vars

\* Start has returned an error
C25_StartFailed == started /\ svc.launches = 0

\* C25: a Start whose Subscribe fails, or whose SyncAll fails with
\* EvmNonceAutoSync set, changes neither the store nor any Worker nor the
\* triggerer; after it no Worker and no triggerer runs, and none is launched
\* for as long as the process lives; and whenever a Worker or the triggerer
\* is launched, it is by a Start whose Subscribe and, with EvmNonceAutoSync,
\* whose SyncAll succeeded.
C25_StartAborts ==
    /\ [](C25_StartFailed =>
            /\ ~svc.triggerer
            /\ \A a \in Addrs : w[a].pc = PcNotRunning)
    /\ [][/\ \A subscribed \in BOOLEAN, autoSync \in BOOLEAN, synced \in BOOLEAN :
              \A syncedNonce \in SyncedNonces :
                (/\ StartWith(subscribed, autoSync, synced, syncedNonce)
                 /\ ~subscribed \/ (autoSync /\ ~synced)) =>
                    /\ UNCHANGED <<store, w, svc>>
                    /\ C25_StartFailed'
          /\ (\/ svc'.launches > svc.launches
              \/ ~svc.triggerer /\ svc'.triggerer
              \/ \E a \in Addrs : w[a].pc = PcNotRunning /\ w'[a].pc # PcNotRunning) =>
                \E autoSync \in BOOLEAN : \E syncedNonce \in SyncedNonces :
                    StartWith(TRUE, autoSync, TRUE, syncedNonce)
          /\ C25_StartFailed => (C25_StartFailed' \/ ~started')]_vars

\* a Start has failed while a row waits
C25_Witness ==
    /\ C25_StartFailed
    /\ \E a \in Addrs : RowsOf(a, EthTxUnstarted) # {}

-----------------------------------------------------------------------------
\* Queues of two subjects fed for a registered and an unregistered address,
\* pruned to one or two rows, while the Worker of the registered address
\* broadcasts and the confirmer confirms.
PruneMaxTx == 3
PruneSubjects == {"s1", "s2"}
PruneQueueSizes == {1, 2}
PruneTxInputs ==
    {[from |-> a, value |-> 0, createdAt |-> 0, subject |-> s,
      simulate |-> FALSE, taskRun |-> FALSE] : a \in AllAddrs, s \in PruneSubjects}
InsertEthTxPrune == Insert(PruneTxInputs, PruneMaxTx)
PruneQueueAny == PruneQueueOf(PruneSubjects, PruneQueueSizes)

PruneWorkerStep(a) ==
    \/ handleAnyInProgressEthTxFrom(a, LoopTurnWith(a, 0))
    \/ processUnstartedEthTxsFrom(a, LoopTurnWith(a, 0))
    \/ saveInProgressTransaction(a)
    \/ sendTransactionAccepted(a)
    \/ saveAttempt(a)

PruneNext ==
    \/ InsertEthTxPrune
    \/ PruneQueueAny
    \/ Confirm
    \/ Start
    \/ \E a \in Addrs : PruneWorkerStep(a)

PruneSpec == Init /\ [][PruneNext]_vars

\* the unstarted rows of subject s in table t
C26_Queue(t, s) ==
    {i \in DOMAIN t : t[i].state = EthTxUnstarted /\ t[i].subject = s}

\* C26: a step that deletes rows of eth_txes is a PruneQueue for one
\* subject S and one queue size N: the rows deleted are unstarted rows of S,
\* each older than every row of S left unstarted; N rows of S are left
\* unstarted when more than N were, so that the number deleted, which is
\* what PruneQueue returns, is the number there were beyond N; every row
\* left is as it was, and no other table is touched.  A row goes whatever
\* its from_address.
C26_DropOldest ==
    [][DOMAIN ethTxes' # DOMAIN ethTxes /\ ethTxSeq' = ethTxSeq =>
        \E s \in PruneSubjects, n \in PruneQueueSizes :
            LET before == C26_Queue(ethTxes, s)
                after == C26_Queue(ethTxes', s)
                deleted == DOMAIN ethTxes \ DOMAIN ethTxes'
            IN /\ DOMAIN ethTxes' \subseteq DOMAIN ethTxes
               /\ deleted \subseteq before
               /\ after = before \ deleted
               /\ \A i \in after, j \in deleted : j < i
               /\ Cardinality(before) > n
               /\ Cardinality(after) = n
               /\ Cardinality(deleted) = Cardinality(before) - n
               /\ \A i \in DOMAIN ethTxes' : ethTxes'[i] = ethTxes[i]
               /\ UNCHANGED <<ethTxAttempts, nextNonce, ethTxSeq, started, w, crashes, svc>>]_vars

\* a queue has been pruned to rows of two addresses while a row of another
\* state and a row of the other subject are still there
C26_Witness ==
    /\ ethTxSeq = PruneMaxTx + 1
    /\ \E s \in PruneSubjects :
        /\ Cardinality(C26_Queue(ethTxes, s)) = 1
        /\ \E i \in 1..PruneMaxTx : i \notin TxIds
    /\ \E i \in TxIds : ethTxes[i].state \in {EthTxInProgress, EthTxUnconfirmed, EthTxConfirmed}

-----------------------------------------------------------------------------
\* Cycles that end in errors.  The node answers a send with any result, the
\* estimator may fail, next_nonce may be changed out of band; Close and
\* kills come at any moment.  Every goroutine gets to run.
CycleMaxTx == 1
InsertEthTxCycle == Insert(KeyTxInputs, CycleMaxTx)

CycleWorkerStep(a) ==
    \/ wakeByPollTimer(a)
    \/ /\ w[a].pc = PcGetInProgress
       /\ ~svc.chStop
       /\ handleAnyInProgressEthTx(a)
    \/ monitorEthTxsDone(a)
    \/ processUnstartedEthTxs(a)
    \/ saveInProgressTransaction(a)
    \/ sendTransaction(a)
    \/ saveReplacementInProgressAttempt(a)
    \/ saveFatallyErroredTransaction(a)
    \/ saveAttempt(a)

CycleNext ==
    \/ InsertEthTxCycle
    \/ ExternalKeyStateChange
    \/ Start
    \/ Close
    \/ Crash
    \/ ethTxInsertTriggerer
    \/ CloseReturns
    \/ \E a \in Addrs : CycleWorkerStep(a)

CycleSpec ==
    /\ Init
    /\ [][CycleNext]_vars
    /\ \A a \in Addrs : WF_vars(CycleWorkerStep(a))

\* C27: a Worker that runs stops running only when chStop is closed, and
\* then from its select or the start of a cycle, or when the process is
\* killed; whatever ends a cycle leaves it waiting; and a Worker that waits
\* goes on to another cycle unless it is stopped or killed.
C27_WorkerSurvivesErrors ==
    /\ [][\A a \in Addrs :
            (w[a].pc # PcNotRunning /\ w'[a].pc = PcNotRunning) =>
                \/ svc.chStop /\ w[a].pc \in {PcWait, PcGetInProgress}
                \/ ~started']_vars
    /\ [](\A a \in Addrs : w[a].pc = PcWait => ENABLED wakeByPollTimer(a))
    /\ \A a \in Addrs :
            (w[a].pc = PcWait) ~> (w[a].pc = PcGetInProgress \/ svc.chStop \/ ~started)

\* a cycle has ended with an error: the Worker waits while a row of its
\* address is still in_progress
C27_Witness ==
    \E a \in Addrs :
        /\ w[a].pc = PcWait
        /\ RowsOf(a, EthTxInProgress) # {}
        /\ IfStarted

-----------------------------------------------------------------------------
\* the monitorEthTxs goroutines launched for address a on this
\* EthBroadcaster: one per key state of a in every run of the body of Start
C28_Launched(a) ==
    svc.launches * Cardinality({k \in DOMAIN keyStates : keyStates[k] = a})

-----------------------------------------------------------------------------
\* A database that is written out of band: besides the Worker, another
\* writer (a second node on the same database, an operator) moves an
\* unstarted row to in_progress with one in_progress attempt, so that an
\* address may have more than one in_progress row.  The node accepts every
\* transaction.
ExternalInProgress ==
    \E i \in TxIds :
        LET etx == [ethTxes[i] EXCEPT
                        !.state = EthTxInProgress,
                        !.nonce = nextNonce[ethTxes[i].from]
                                    + Cardinality(InProgressRows(ethTxes[i].from))]
        IN /\ ethTxes[i].from \in Addrs
           /\ ethTxes[i].state = EthTxUnstarted
           /\ ethTxes' = [ethTxes EXCEPT ![i] = etx]
           /\ ethTxAttempts' =
                    WithAttempt(InsertAttempt(NewLegacyAttempt(etx, EvmMaxGasPriceWei), NoAttempt))
           /\ UNCHANGED <<nextNonce, ethTxSeq, started, w, crashes, svc>>

DupNext ==
    \/ InsertEthTxKey
    \/ ExternalInProgress
    \/ Crash
    \/ Start
    \/ \E a \in Addrs : KeyWorkerStep(a)

DupSpec == Init /\ [][DupNext]_vars

\* row i has exactly one attempt, and it is in_progress
C29_OneUnsentAttempt(i) ==
    /\ Cardinality(AttemptsOf(i)) = 1
    /\ \A at \in AttemptsOf(i) : at.state = EthTxAttemptInProgress

\* C29 as stated: the step that begins a cycle resumes no row when none is
\* in_progress; writes nothing, sends nothing and ends the cycle when the
\* address has more than one in_progress row, or when the row's attempts are
\* not exactly one in_progress attempt; and only otherwise takes up the row.
C29_InProgressLookup ==
    [][\A a \in Addrs :
        (w[a].pc \in {PcWait, PcGetInProgress} /\ WorkerMoved(a)) =>
            /\ store' = store
            /\ IF InProgressRows(a) = {}
               THEN ~w'[a].resumed
               ELSE IF \/ Cardinality(InProgressRows(a)) > 1
                       \/ \E i \in InProgressRows(a) : ~C29_OneUnsentAttempt(i)
               THEN w'[a] = EndCycle
               ELSE /\ w'[a].resumed
                    /\ w'[a].pc \in {PcSimulate, PcSend}
                    /\ w'[a].etx.id \in InProgressRows(a)]_vars

-----------------------------------------------------------------------------
\* broadcast_at: the clock moves on between a row's insertion and the call
\* of handleInProgressEthTx from the loop, producers insert at different
\* times, and a process may be killed between any two steps.

BroadcastMaxTx == 2
\* how far the clock may have moved on since a row's created_at
MaxElapsed == 1
ClockMovedOn == 1..MaxElapsed

BroadcastTxInputs ==
    {[from |-> "a1", value |-> 0, createdAt |-> t, subject |-> NoSubject,
      simulate |-> FALSE, taskRun |-> FALSE] : t \in {0, 1}}
InsertEthTxBroadcast == Insert(BroadcastTxInputs, BroadcastMaxTx)

BroadcastWorkerStep(a) ==
    \/ handleAnyInProgressEthTx(a)
    \/ processUnstartedEthTxs(a)
    \/ saveInProgressTransactionAt(a, ClockMovedOn)
    \/ sendTransaction(a)
    \/ saveReplacementInProgressAttempt(a)
    \/ saveFatallyErroredTransaction(a)
    \/ saveAttempt(a)

BroadcastNext ==
    \/ InsertEthTxBroadcast
    \/ Crash
    \/ Start
    \/ \E a \in Addrs : BroadcastWorkerStep(a)

BroadcastSpec == Init /\ [][BroadcastNext]_vars

\* the Worker of a stores the broadcast of the row it holds
C30_Saved(a) ==
    /\ w[a].pc = PcSaveAttempt
    /\ w[a].etx.id \in TxIds
    /\ ethTxes[w[a].etx.id].state = EthTxInProgress
    /\ ethTxes'[w[a].etx.id].state = EthTxUnconfirmed

\* a row that is not broadcast has no broadcast_at
C30_NullUntilBroadcast ==
    \A i \in TxIds :
        ethTxes[i].state \in {EthTxUnstarted, EthTxInProgress, EthTxFatalError} =>
            ethTxes[i].broadcastAt = NullTime

\* the broadcast_at a successful broadcast stores: the row's created_at when
\* the row was resumed, the later reading of the clock when it was not
C30_StoredAt ==
    \A a \in Addrs :
        C30_Saved(a) =>
            LET i == w[a].etx.id
            IN /\ ethTxes[i].broadcastAt = NullTime
               /\ IF w[a].resumed
                  THEN ethTxes'[i].broadcastAt = ethTxes[i].createdAt
                  ELSE ethTxes'[i].broadcastAt > ethTxes[i].createdAt

\* C30: an in_progress row has no broadcast_at; when a Worker resumes an
\* in_progress EthTx and the broadcast succeeds, the broadcast_at stored on
\* the unconfirmed EthTx is the row's created_at.
C30_ResumedBroadcastAt == []C30_NullUntilBroadcast /\ [][C30_StoredAt]_vars

\* C30 as stated: the broadcast_at stored on the unconfirmed EthTx of a
\* resumed, successful broadcast is the broadcast_at the row had while
\* in_progress.
C30_AsStated ==
    [][\A a \in Addrs :
        (C30_Saved(a) /\ w[a].resumed) =>
            ethTxes'[w[a].etx.id].broadcastAt = ethTxes[w[a].etx.id].broadcastAt]_vars

\* a resumed row stored unconfirmed at its created_at, beside a row that was
\* broadcast without a resumption
C30_Witness ==
    \E i, j \in TxIds :
        /\ ethTxes[i].state = EthTxUnconfirmed
        /\ ethTxes[i].broadcastAt = ethTxes[i].createdAt
        /\ ethTxes[j].state = EthTxUnconfirmed
        /\ ethTxes[j].broadcastAt > ethTxes[j].createdAt

-----------------------------------------------------------------------------
\* A raw send error that matches several kinds: the node's answer is any
\* set of the kinds the classifier methods test (Unknown being the answer
\* that no method matches), for rows with and without a
\* pipeline_task_run_id.

ClassifyMaxTx == 1
ClassifyTxInputs ==
    {[from |-> "a1", value |-> 0, createdAt |-> 0, subject |-> NoSubject,
      simulate |-> FALSE, taskRun |-> t] : t \in BOOLEAN}
InsertEthTxClassify == Insert(ClassifyTxInputs, ClassifyMaxTx)

\* how many kinds one raw error matches at most
MaxMatches == 2
SendMatches ==
    {sendError \in SUBSET (SendErrorKinds \ {Unknown}) : Cardinality(sendError) <= MaxMatches}
        \cup {{Unknown}}

\* sendTransaction with such an answer
sendTransactionMatching(a) ==
    \E sendError \in SendMatches :
        /\ sendError \cap RetryKinds # {} => w[a].attempt.id[2] <= MaxReplacements
        /\ handleSendError(a, sendError)

ClassifyWorkerStep(a) ==
    \/ handleAnyInProgressEthTx(a)
    \/ processUnstartedEthTxs(a)
    \/ saveInProgressTransaction(a)
    \/ sendTransactionMatching(a)
    \/ saveReplacementInProgressAttempt(a)
    \/ resumeCallback(a)
    \/ saveFatallyErroredTransaction(a)
    \/ saveAttempt(a)

ClassifyNext ==
    \/ InsertEthTxClassify
    \/ Crash
    \/ Start
    \/ \E a \in Addrs : ClassifyWorkerStep(a)

ClassifySpec == Init /\ [][ClassifyNext]_vars

\* the outcome the stated precedence gives a send result
C31_Dominant(sendError) ==
    IF sendError \cap {TooExpensive, Fatal} # {} THEN "fatal_error"
    ELSE IF sendError \cap {NonceTooLow, ReplacementUnderpriced} # {} THEN "success"
    ELSE IF TerminallyUnderpriced \in sendError THEN "fee bump"
    ELSE IF sendError \cap {FeeTooLow, FeeTooHigh} # {} THEN "re-estimation"
    ELSE IF TemporarilyUnderpriced \in sendError THEN "success"
    ELSE IF InsufficientEth \in sendError THEN "blocks"
    ELSE IF sendError = {} THEN "success"
    ELSE "transient error"

\* the cycle ends with the row and its attempt as they are
C31_Returns(a) == w'[a].pc = PcWait /\ store' = store

\* a replacement attempt at newGasPrice is about to be saved
C31_TriesAgain(a, prices) ==
    /\ w'[a].pc = PcSaveReplacement
    /\ w'[a].repl.gasPrice \in prices
    /\ w'[a].etx = w[a].etx
    /\ w'[a].attempt = w[a].attempt
    /\ store' = store

\* what the Worker does next for each outcome
C31_Outcome(a, outcome) ==
    CASE outcome = "fatal_error" ->
            /\ w'[a].pc = IF w[a].etx.taskRun THEN PcResume ELSE PcSaveFatal
            /\ w'[a].etx = [w[a].etx EXCEPT !.error = "send error"]
            /\ store' = store
      [] outcome = "success" ->
            /\ w'[a].pc = PcSaveAttempt
            /\ w'[a].etx = w[a].etx
            /\ w'[a].attempt = w[a].attempt
            /\ store' = store
      [] outcome = "fee bump" ->
            \/ C31_Returns(a)
            \/ /\ w[a].attempt.txType # 2
               /\ C31_TriesAgain(a, {p \in 1..EvmMaxGasPriceWei : p >= w[a].attempt.gasPrice})
               /\ ~(w'[a].repl.gasPrice = w[a].attempt.gasPrice
                        /\ w'[a].repl.gasPrice = EvmMaxGasPriceWei)
      [] outcome = "re-estimation" ->
            \/ C31_Returns(a)
            \/ C31_TriesAgain(a, 1..EvmMaxGasPriceWei)
      [] outcome \in {"blocks", "transient error"} -> C31_Returns(a)

\* C31: each SendRawTransaction result leads to the one outcome the
\* precedence gives it: TooExpensive or Fatal gives fatal_error; otherwise
\* NonceTooLow/ReplacementUnderpriced gives success; otherwise
\* TerminallyUnderpriced gives a fee bump; otherwise FeeTooLow/FeeTooHigh
\* gives re-estimation; otherwise TemporarilyUnderpriced gives success;
\* otherwise InsufficientEth blocks; otherwise nil gives success; anything
\* else is a transient error.
C31_SendErrorPrecedence ==
    [][\A a \in Addrs : \A sendError \in SendMatches :
            handleSendError(a, sendError) => C31_Outcome(a, C31_Dominant(sendError))]_vars

\* a resumed row whose send was answered by an error that is both "nonce too
\* low" and terminally underpriced, taken as a success; and one whose answer
\* was both temporarily underpriced and insufficient eth
C31_Witness ==
    /\ w["a1"].pc = PcSaveAttempt
    /\ w["a1"].resumed
    /\ \/ w["a1"].sent = {NonceTooLow, TerminallyUnderpriced}
       \/ w["a1"].sent = {TemporarilyUnderpriced, InsufficientEth}

-----------------------------------------------------------------------------
\* C32: where nothing but the Broadcaster writes next_nonce, the in_progress
\* EthTx of an address has the key's next_nonce as its nonce, every
\* unconfirmed (or confirmed) EthTx of the address has a nonce below
\* next_nonce, and a Worker that is about to save a broadcast, resumed or
\* not, holds an EthTx whose nonce is the stored next_nonce: the conditional
\* increment finds its row.
C32_NonceMatchesKeyState ==
    \A a \in Addrs :
        /\ \A i \in RowsOf(a, EthTxInProgress) : ethTxes[i].nonce = nextNonce[a]
        /\ \A i \in RowsOf(a, EthTxUnconfirmed) \cup RowsOf(a, EthTxConfirmed) :
                ethTxes[i].nonce < nextNonce[a]
        /\ w[a].pc = PcSaveAttempt =>
                /\ w[a].etx.from = a
                /\ w[a].etx.nonce = nextNonce[a]
                /\ w[a].etx.id \in RowsOf(a, EthTxInProgress)

\* a row resumed after a kill is about to be saved as broadcast, after an
\* earlier row of the address was broadcast and one went to fatal_error
C32_Witness ==
    /\ w["a1"].pc = PcSaveAttempt
    /\ w["a1"].resumed
    /\ w["a1"].etx.nonce = InitialNonce + 1
    /\ RowsOf("a1", EthTxUnconfirmed) # {}

-----------------------------------------------------------------------------
\* A node that finds every price too low, with an estimator that raises:
\* SendRawTransaction is answered TerminallyUnderpriced (or accepted), and
\* BumpLegacyGas fails or gives a price above the attempt's, the maximum once
\* the attempt is at the maximum.  No bound is put on the number of
\* replacements.

BumpMaxTx == 2
InsertEthTxBump == Insert(KeyTxInputs, BumpMaxTx)

\* BumpLegacyGas of an estimator that raises the price until the maximum
EstimatorRaises(a) ==
    w'[a].pc = PcSaveReplacement =>
        \/ w'[a].repl.gasPrice > w[a].attempt.gasPrice
        \/ /\ w[a].attempt.gasPrice = EvmMaxGasPriceWei
           /\ w'[a].repl.gasPrice = EvmMaxGasPriceWei

sendTransactionUnderpriced(a) ==
    \/ handleSendError(a, {TerminallyUnderpriced}) /\ EstimatorRaises(a)
    \/ handleSendError(a, NilError)

BumpWorkerStep(a) ==
    \/ handleAnyInProgressEthTx(a)
    \/ processUnstartedEthTxs(a)
    \/ saveInProgressTransaction(a)
    \/ sendTransactionUnderpriced(a)
    \/ saveReplacementInProgressAttempt(a)
    \/ saveAttempt(a)

BumpNext ==
    \/ InsertEthTxBump
    \/ Crash
    \/ Start
    \/ \E a \in Addrs : BumpWorkerStep(a)

\* the scheduler runs each Worker
BumpSpec ==
    /\ Init
    /\ [][BumpNext]_vars
    /\ \A a \in Addrs : WF_vars(BumpWorkerStep(a))

\* the attempt the Worker of a holds is at the maximum price
C33_AtCeiling(a) ==
    /\ w[a].pc = PcSend
    /\ w[a].attempt.gasPrice = EvmMaxGasPriceWei

\* the handling ends with an error, nothing written
C33_TerminalError(a) ==
    /\ w'[a].pc = PcWait
    /\ store' = store
    /\ ethTxes[w[a].etx.id].state = EthTxInProgress
    /\ AttemptsOf(w[a].etx.id) = {w[a].attempt}

\* the attempts saved for an EthTx, the first included, are no more than
\* the prices up to the attempt's: each replacement is at a higher price,
\* and an attempt of type 0x2 is never replaced
C33_FinitelyManySends ==
    \A at \in ethTxAttempts :
        /\ at.id[2] <= IF at.txType = 2 THEN 1 ELSE at.gasPrice
        /\ at.gasPrice <= EvmMaxGasPriceWei

\* the Worker of a is in a handling call, at the send or at the save of a
\* replacement
C33_Handling(a) == w[a].pc \in {PcSend, PcSaveReplacement}

\* C33: at the maximum price a TerminallyUnderpriced answer ends the
\* handling with an error, without a replacement attempt and without another
\* send, the EthTx in_progress with its attempt and next_nonce unchanged;
\* with an estimator that raises the price until the maximum the attempts of
\* an EthTx number at most the prices, and a handling call comes to an end.
C33_BumpTerminates ==
    /\ [][\A a \in Addrs :
            (C33_AtCeiling(a) /\ handleSendError(a, {TerminallyUnderpriced})) =>
                C33_TerminalError(a)]_vars
    /\ []C33_FinitelyManySends
    /\ \A a \in Addrs : C33_Handling(a) ~> ~C33_Handling(a)

\* a cycle has ended with the EthTx in_progress, its attempt a replacement
\* at the maximum price
C33_Witness ==
    /\ w["a1"].pc = PcWait
    /\ \E i \in RowsOf("a1", EthTxInProgress) :
        \E at \in AttemptsOf(i) : at.id[2] > 1 /\ at.gasPrice = EvmMaxGasPriceWei

-----------------------------------------------------------------------------
\* The resume callback.  The process is not killed, the node accepts a
\* transaction or rejects it for good (Fatal, TooExpensive) and a simulation
\* may revert: a cycle that ends with a row in_progress has ended with a
\* failed resume callback, and a Worker that resumes a row resumes one whose
\* callback has failed.

ResumeMaxTx == 2
ResumeTxInputs ==
    {[from |-> "a1", value |-> 0, createdAt |-> 0, subject |-> NoSubject,
      simulate |-> s, taskRun |-> t] : s \in BOOLEAN, t \in BOOLEAN}
InsertEthTxResume == Insert(ResumeTxInputs, ResumeMaxTx)

sendTransactionFatal(a) ==
    \E sendError \in {{Fatal}, {TooExpensive}, NilError} : handleSendError(a, sendError)

ResumeWorkerStep(a) ==
    \/ handleAnyInProgressEthTx(a)
    \/ processUnstartedEthTxs(a)
    \/ saveInProgressTransaction(a)
    \/ simulateTransaction(a)
    \/ sendTransactionFatal(a)
    \/ resumeCallback(a)
    \/ saveFatallyErroredTransaction(a)
    \/ saveAttempt(a)

ResumeNext ==
    \/ InsertEthTxResume
    \/ Start
    \/ \E a \in Addrs : ResumeWorkerStep(a)

ResumeSpec == Init /\ [][ResumeNext]_vars

\* the row the Worker of a holds is stored in_progress with the Worker's
\* attempt and nonce
C34_StillInProgress(a) ==
    /\ ethTxes'[w[a].etx.id].state = EthTxInProgress
    /\ ethTxes'[w[a].etx.id].nonce = w[a].etx.nonce
    /\ w[a].etx.nonce # NullNonce
    /\ {at \in ethTxAttempts' : at.ethTxId = w[a].etx.id} = {w[a].attempt}

\* a send or a simulation of the Worker of a has ended in a fatal error
C34_FatalError(a) ==
    /\ w[a].pc \in {PcSend, PcSimulate}
    /\ w'[a].etx.error # NoError

C34_Steps(a) ==
    \* the callback comes first, and nothing is written before it
    /\ (C34_FatalError(a) /\ w[a].etx.taskRun) =>
            w'[a].pc = PcResume /\ store' = store
    /\ (w'[a].pc = PcSaveFatal /\ w[a].pc # PcSaveFatal /\ w'[a].etx.taskRun) =>
            w[a].pc = PcResume
    /\ \A i \in RowsOf(a, EthTxInProgress) :
            ethTxes'[i].state = EthTxFatalError =>
                w[a].pc = PcSaveFatal /\ w[a].etx.id = i
    \* the callback returns: the save follows, or the cycle ends with
    \* nothing written
    /\ (w[a].pc = PcResume /\ WorkerMoved(a)) =>
            /\ store' = store
            /\ C34_StillInProgress(a)
            /\ w'[a].pc \in {PcSaveFatal, PcWait}
    \* a later cycle takes the row up again
    /\ (w[a].pc = PcWait /\ WorkerMoved(a) /\ RowsOf(a, EthTxInProgress) # {}) =>
            /\ w'[a].resumed
            /\ w'[a].etx.id \in RowsOf(a, EthTxInProgress)
            /\ w'[a].pc = IF w'[a].etx.simulate THEN PcSimulate ELSE PcSend

\* C34: on a fatal send or simulation error for an EthTx with a
\* pipeline_task_run_id the resume callback is invoked before fatal_error is
\* stored; when the callback fails nothing is written, the EthTx stays
\* in_progress with its attempt and nonce and the cycle ends, and a later
\* cycle takes the EthTx up again.
C34_CallbackBeforeSave == [][\A a \in Addrs : C34_Steps(a)]_vars

\* the callback is invoked again for a row whose callback failed in an
\* earlier cycle
C34_Witness ==
    /\ w["a1"].pc = PcResume
    /\ w["a1"].resumed
    /\ w["a1"].etx.id \in RowsOf("a1", EthTxInProgress)

====
